---------------------------- MODULE Spec2Model ----------------------------
(***************************************************************************)
(* Itinerary planner (src/types.ts): the trip list, its undo/redo history  *)
(* and the editor, with one action per handler of App.                     *)
(*                                                                         *)
(* Representation of values:                                               *)
(*  - ids (generateId, a random string) are naturals drawn from nextId;    *)
(*  - hour quantities (timeSpentHours, durationHours) are integers in      *)
(*    hundredths of an hour, so 2 h is 200 and 0.5 h is 50;                *)
(*  - minute totals inside the time cascade are integers in hundredths of  *)
(*    a minute (one hundredth of an hour is 60 hundredths of a minute);    *)
(*  - a time string "HH:MM" is the pair <<h, m>> of the two numbers that   *)
(*    minutesToTime prints, the empty string is <<>>; Chars gives the      *)
(*    characters of the printed string for string comparison;              *)
(*  - a value of a form field is [num |-> n] (a number copied from the     *)
(*    trip) or [text |-> s] (what an <input> delivers), s a sequence of    *)
(*    one-character strings;                                               *)
(*  - coordinates: lat is in units of one metre of arc along a meridian    *)
(*    and all points share lng, so the great-circle distance of two points *)
(*    is the absolute difference of their lat, in metres.                  *)
(***************************************************************************)
EXTENDS Integers, Sequences, FiniteSets, TLC

VARIABLES
  trips,         \* useState<Trip[]>            (types.ts:220)
  activeTripId,  \* useState<string>            (types.ts:221)
  past,          \* useState<Trip[][]>          (types.ts:227)
  future,        \* useState<Trip[][]>          (types.ts:228)
  activeEditor,  \* useState<{type, id} | null> (types.ts:230)
  localForm,     \* useState<any>               (types.ts:238)
  nextId,        \* number of ids generateId has handed out, plus one
  lastOp,        \* the last handler that wrote trips or the history, with its arguments
  searchQuery,   \* useState<string>            (types.ts:234)
  searchTimer,   \* searchTimeoutRef: the query the pending timer will search for
  requests,      \* the searches whose fetch has been sent and has not answered
  suggestions,   \* useState<any[]>             (types.ts:235)
  pendingAdd,    \* useState<{lat, lng, name, city} | null> (types.ts:231)
  lookups        \* the long presses whose fetchPlaceDetails has not answered

\* the state of the place search and of the reverse lookup, pendingAdd apart
netVars == <<searchQuery, searchTimer, requests, suggestions, lookups>>

vars == <<trips, activeTripId, past, future, activeEditor, localForm, nextId, lastOp,
          searchQuery, searchTimer, requests, suggestions, pendingAdd, lookups>>

---------------------------------------------------------------------------
(* Bounds of the model                                                     *)

\* ids handed out by generateId in one run (the first trip takes one)
MaxIds == 4
\* history-recorded operations in a row under Spec
MaxPast == 4
\* history-recorded operations in a row under SpecOrder
MaxSteps == 6
\* ids handed out by generateId in one run under SpecOrder
MaxOrderIds == 5
\* history-recorded operations in a row under SpecTrips
MaxPastTrips == 3
\* trips in the trip list under SpecTrips
MaxTrips == 2

---------------------------------------------------------------------------
(* JavaScript helpers                                                      *)

Num(n) == [num |-> n]
Text(s) == [text |-> s]
IsNum(v) == DOMAIN v = {"num"}

Abs(n) == IF n < 0 THEN -n ELSE n
Max(a, b) == IF a >= b THEN a ELSE b

\* a % b of JavaScript: the remainder has the sign of the dividend
JSRem(a, b) == IF a >= 0 THEN a % b ELSE -((-a) % b)

DigitChars == <<"0", "1", "2", "3", "4", "5", "6", "7", "8", "9">>
IsDigit(c) == \E d \in 1..10 : DigitChars[d] = c
DigitVal(c) == (CHOOSE d \in 1..10 : DigitChars[d] = c) - 1

\* the length of the longest prefix of s[i..] made of digits
RECURSIVE DigitRun(_, _)
DigitRun(s, i) ==
  IF i > Len(s) \/ ~IsDigit(s[i]) THEN 0 ELSE 1 + DigitRun(s, i + 1)

\* the number written by the n digits of s that start at i
RECURSIVE DigitsValue(_, _, _)
DigitsValue(s, i, n) ==
  IF n = 0 THEN 0 ELSE DigitsValue(s, i, n - 1) * 10 + DigitVal(s[i + n - 1])

NaN == [nan |-> TRUE, v |-> 0]
Finite(n) == [nan |-> FALSE, v |-> n]

\* parseInt(v): of a number, the number (the model's day and cost are
\* integers); of a text, an optional sign and the leading digits
ParseInt(v) ==
  IF IsNum(v) THEN Finite(v.num)
  ELSE LET s == v.text
           neg == Len(s) > 0 /\ s[1] = "-"
           st == IF Len(s) > 0 /\ s[1] \in {"-", "+"} THEN 2 ELSE 1
           n == DigitRun(s, st)
       IN IF n = 0 THEN NaN
          ELSE Finite((IF neg THEN -1 ELSE 1) * DigitsValue(s, st, n))

\* parseFloat(v), in hundredths: an optional sign, digits, and an optional
\* point followed by digits, of which the model keeps two
ParseFloat(v) ==
  IF IsNum(v) THEN Finite(v.num)
  ELSE LET s == v.text
           neg == Len(s) > 0 /\ s[1] = "-"
           st == IF Len(s) > 0 /\ s[1] \in {"-", "+"} THEN 2 ELSE 1
           n == DigitRun(s, st)
           dot == st + n <= Len(s) /\ s[st + n] = "."
           f == IF dot THEN DigitRun(s, st + n + 1) ELSE 0
           whole == DigitsValue(s, st, n) * 100
           frac == IF f = 0 THEN 0
                   ELSE IF f = 1 THEN DigitVal(s[st + n + 1]) * 10
                   ELSE DigitsValue(s, st + n + 1, 2)
       IN IF n = 0 /\ f = 0 THEN NaN
          ELSE Finite((IF neg THEN -1 ELSE 1) * (whole + frac))

\* x || d for a parsed number: NaN and 0 are falsy
OrDefault(p, d) == IF p.nan \/ p.v = 0 THEN d ELSE p.v

---------------------------------------------------------------------------
(* Time strings (types.ts:152-171)                                         *)

EmptyTime == <<>>

timeToMinutes(timeStr) ==
  IF timeStr = EmptyTime THEN 0 ELSE timeStr[1] * 60 + timeStr[2]

\* totalMinutes is in hundredths of a minute
minutesToTime(totalMinutes) ==
  LET mins == JSRem(totalMinutes, 24 * 60 * 100) \div 100
      h == mins \div 60
      m == JSRem(mins, 60)
  IN <<h, m>>

\* the characters of a number as toString prints it, as collation ranks:
\* "-" is 0, ":" is 1 and the digit d is d + 2
RECURSIVE NatChars(_)
NatChars(n) == IF n < 10 THEN <<n + 2>> ELSE NatChars(n \div 10) \o <<(n % 10) + 2>>

NumChars(n) == IF n < 0 THEN <<0>> \o NatChars(-n) ELSE NatChars(n)

\* n.toString().padStart(2, '0')
PadStart2(n) == LET c == NumChars(n) IN IF Len(c) < 2 THEN <<2>> \o c ELSE c

\* the characters of (timeStr || "")
Chars(timeStr) ==
  IF timeStr = EmptyTime THEN <<>>
  ELSE PadStart2(timeStr[1]) \o <<1>> \o PadStart2(timeStr[2])

\* a.localeCompare(b) on such strings: -1, 0 or 1
RECURSIVE CompareChars(_, _)
CompareChars(a, b) ==
  IF a = <<>> /\ b = <<>> THEN 0
  ELSE IF a = <<>> THEN -1
  ELSE IF b = <<>> THEN 1
  ELSE IF Head(a) < Head(b) THEN -1
  ELSE IF Head(a) > Head(b) THEN 1
  ELSE CompareChars(Tail(a), Tail(b))

localeCompare(a, b) == CompareChars(Chars(a), Chars(b))

---------------------------------------------------------------------------
(* Sequences as JavaScript arrays                                          *)

\* arr.filter(x => Keep(x))
FilterSeq(s, Keep(_)) ==
  LET F[i \in 0..Len(s)] ==
        IF i = 0 THEN <<>>
        ELSE IF Keep(s[i]) THEN Append(F[i - 1], s[i]) ELSE F[i - 1]
  IN F[Len(s)]

\* arr.findIndex(x => Hit(x)), 0-based, -1 when nothing matches
FindIndex(s, Hit(_)) ==
  IF \E i \in 1..Len(s) : Hit(s[i])
  THEN (CHOOSE i \in 1..Len(s) : Hit(s[i]) /\ \A j \in 1..(i - 1) : ~Hit(s[j])) - 1
  ELSE -1

\* Array.from(new Set(arr)): the distinct elements in order of first appearance
RECURSIVE Distinct(_)
Distinct(s) ==
  IF s = <<>> THEN <<>>
  ELSE LET d == Distinct(SubSeq(s, 1, Len(s) - 1))
           x == s[Len(s)]
       IN IF \E i \in 1..Len(d) : d[i] = x THEN d ELSE Append(d, x)

\* arr.flatMap(x => G(x))
FlatMap(s, G(_)) ==
  LET F[i \in 0..Len(s)] == IF i = 0 THEN <<>> ELSE F[i - 1] \o G(s[i])
  IN F[Len(s)]

\* [a[i], a[j]] = [a[j], a[i]] with both indices inside the array (1-based)
Swap(a, i, j) == [a EXCEPT ![i] = a[j], ![j] = a[i]]

\* arr.sort(cmp) is stable: each element is put behind those it does not precede
InsertSorted(sorted, x, Cmp(_, _)) ==
  LET Before(e) == Cmp(x, e) < 0
      k == FindIndex(sorted, Before)
  IN IF k = -1 THEN Append(sorted, x)
     ELSE SubSeq(sorted, 1, k) \o <<x>> \o SubSeq(sorted, k + 1, Len(sorted))

StableSort(s, Cmp(_, _)) ==
  LET F[i \in 0..Len(s)] ==
        IF i = 0 THEN <<>> ELSE InsertSorted(F[i - 1], s[i], Cmp)
  IN F[Len(s)]

---------------------------------------------------------------------------
(* The engine's pure functions                                             *)

\* L.latLng(from).distanceTo(L.latLng(to)), in metres
distanceTo(from, to) == Abs(from.lat - to.lat)

\* Math.round(metres / 1000)
RoundKm(metres) == (metres + 500) \div 1000

\* Math.max(0.5, Math.round((dist / 30) * 10) / 10), in hundredths of an hour
SynthDuration(metres) == Max(50, ((metres + 1500) \div 3000) * 10)

\* faulty variant: the duration has no lower limit of half an hour
NewSegmentNoFloor(from, to) ==
  [fromId |-> from.id, toId |-> to.id,
   mode |-> IF from.city = to.city THEN "AUTO" ELSE "TRAIN",
   distanceKm |-> RoundKm(distanceTo(from, to)),
   durationHours |-> ((distanceTo(from, to) + 1500) \div 3000) * 10,
   cost |-> Num(0), safetyNote |-> ""]

NewSegment(from, to) ==
  [fromId |-> from.id, toId |-> to.id,
   mode |-> IF from.city = to.city THEN "AUTO" ELSE "TRAIN",
   distanceKm |-> RoundKm(distanceTo(from, to)),
   durationHours |-> SynthDuration(distanceTo(from, to)),
   cost |-> Num(0), safetyNote |-> ""]

\* faulty variant: the existing segment at the same position is reused
syncSegmentsByIndex(checkpoints, existingSegments) ==
  [i \in 1..(Len(checkpoints) - 1) |->
     IF i <= Len(existingSegments) THEN existingSegments[i]
     ELSE NewSegment(checkpoints[i], checkpoints[i + 1])]

\* faulty variant: every segment is synthesized anew
syncSegmentsFresh(checkpoints, existingSegments) ==
  [i \in 1..(Len(checkpoints) - 1) |-> NewSegment(checkpoints[i], checkpoints[i + 1])]

syncSegments(checkpoints, existingSegments) ==
  [i \in 1..(Len(checkpoints) - 1) |->
     LET from == checkpoints[i]
         to == checkpoints[i + 1]
         Hit(s) == s.fromId = from.id /\ s.toId = to.id
         k == FindIndex(existingSegments, Hit)
     IN IF k # -1 THEN existingSegments[k + 1] ELSE NewSegment(from, to)]

\* the comparator of the two sorts (types.ts:360-363 and 446-449)
CompareCheckpoints(a, b) ==
  IF a.day # b.day THEN a.day - b.day ELSE localeCompare(a.startTime, b.startTime)

\* faulty variant: the checkpoints are grouped by city and not sorted
RegroupUnsorted(cps) ==
  LET cityOrder == Distinct([i \in 1..Len(cps) |-> cps[i].city])
      Group(cName) == FilterSeq(cps, LAMBDA cp : cp.city = cName)
  IN FlatMap(cityOrder, Group)

\* faulty variant: the sort is not stable, a checkpoint is put before
\* those of the same day and start time
RegroupUnstable(cps) ==
  LET cityOrder == Distinct([i \in 1..Len(cps) |-> cps[i].city])
      Group(cName) ==
        LET InCity(cp) == cp.city = cName
        IN StableSort(FilterSeq(cps, InCity),
                      LAMBDA a, b : IF CompareCheckpoints(a, b) <= 0 THEN -1 ELSE 1)
  IN FlatMap(cityOrder, Group)

\* cityOrder.flatMap(city => checkpoints of the city, sorted)
Regroup(cps) ==
  LET cityOrder == Distinct([i \in 1..Len(cps) |-> cps[i].city])
      Group(cName) ==
        LET InCity(cp) == cp.city = cName
        IN StableSort(FilterSeq(cps, InCity), CompareCheckpoints)
  IN FlatMap(cityOrder, Group)

---------------------------------------------------------------------------
(* The updaters handed to updateActiveTrip: Trip -> Trip                   *)

\* faulty variant: the new checkpoint is always on day 1
NewCheckpointDayOne(id, place, shown) ==
  [id |-> id, name |-> place.name, lat |-> place.lat, lng |-> place.lng,
   type |-> "SIGHTSEEING", timeSpentHours |-> 200,
   startTime |-> <<9, 0>>, endTime |-> <<11, 0>>, day |-> 1,
   cost |-> 0, notes |-> "", city |-> place.city]

\* types.ts:350-354; the day is read from the trip on display
NewCheckpoint(id, place, shown) ==
  LET n == Len(shown.checkpoints)
      lastDay == IF n > 0 THEN shown.checkpoints[n].day ELSE 1
  IN [id |-> id, name |-> place.name, lat |-> place.lat, lng |-> place.lng,
      type |-> "SIGHTSEEING", timeSpentHours |-> 200,
      startTime |-> <<9, 0>>, endTime |-> <<11, 0>>, day |-> lastDay,
      cost |-> 0, notes |-> "", city |-> place.city]

\* faulty variant: the new checkpoint is put before the others, so the
\* group of a new city comes first
addCheckpointUpdaterFirst(prev, newCp) ==
  LET reordered == Regroup(<<newCp>> \o prev.checkpoints)
  IN [prev EXCEPT !.checkpoints = reordered,
                  !.segments = syncSegments(reordered, prev.segments)]

\* types.ts:355-366
addCheckpointUpdater(prev, newCp) ==
  LET reordered == Regroup(Append(prev.checkpoints, newCp))
  IN [prev EXCEPT !.checkpoints = reordered,
                  !.segments = syncSegments(reordered, prev.segments)]

\* faulty variant: the sequence is regrouped and sorted after the exchange
moveCheckpointUpdaterRegroup(prev, id, delta) ==
  LET idx == FindIndex(prev.checkpoints, LAMBDA c : c.id = id)
      newIdx == idx + delta
  IN IF idx = -1 \/ newIdx < 0 \/ newIdx >= Len(prev.checkpoints) THEN prev
     ELSE LET newCps == Regroup(Swap(prev.checkpoints, idx + 1, newIdx + 1))
          IN [prev EXCEPT !.checkpoints = newCps,
                          !.segments = syncSegments(newCps, prev.segments)]

\* faulty variant: the target index wraps around the ends of the sequence
moveCheckpointUpdaterWrap(prev, id, delta) ==
  LET n == Len(prev.checkpoints)
      idx == FindIndex(prev.checkpoints, LAMBDA c : c.id = id)
      newIdx == (idx + delta + n) % n
  IN IF idx = -1 THEN prev
     ELSE LET newCps == Swap(prev.checkpoints, idx + 1, newIdx + 1)
          IN [prev EXCEPT !.checkpoints = newCps,
                          !.segments = syncSegments(newCps, prev.segments)]

\* types.ts:383-390
moveCheckpointUpdater(prev, id, delta) ==
  LET idx == FindIndex(prev.checkpoints, LAMBDA c : c.id = id)
      newIdx == idx + delta
  IN IF idx = -1 \/ newIdx < 0 \/ newIdx >= Len(prev.checkpoints) THEN prev
     ELSE LET newCps == Swap(prev.checkpoints, idx + 1, newIdx + 1)
          IN [prev EXCEPT !.checkpoints = newCps,
                          !.segments = syncSegments(newCps, prev.segments)]

\* the value JavaScript reads from an array index that holds nothing
Undefined == "undefined"

\* cities.indexOf(cityName)
IndexOf(s, x) == FindIndex(s, LAMBDA e : e = x)

\* [a[i], a[j]] = [a[j], a[i]] with 0-based i that may be -1: a[-1] reads as
\* undefined, and the write to a[-1] adds no element to the array
SwapCities(a, i, j) ==
  IF i = -1 THEN [a EXCEPT ![j + 1] = Undefined] ELSE Swap(a, i + 1, j + 1)

\* faulty variant: the groups are concatenated in the old city order
moveDestinationUpdaterNoSwap(prev, cityName, delta) ==
  LET cps == prev.checkpoints
      cities == Distinct([i \in 1..Len(cps) |-> cps[i].city])
      targetIdx == IndexOf(cities, cityName) + delta
  IN IF targetIdx < 0 \/ targetIdx >= Len(cities) THEN prev
     ELSE LET OfCity(c) == FilterSeq(cps, LAMBDA cp : cp.city = c)
              reorderedCps == FlatMap(cities, OfCity)
          IN [prev EXCEPT !.checkpoints = reorderedCps,
                          !.segments = syncSegments(reorderedCps, prev.segments)]

\* types.ts:394-403
moveDestinationUpdater(prev, cityName, delta) ==
  LET cps == prev.checkpoints
      cities == Distinct([i \in 1..Len(cps) |-> cps[i].city])
      cityIdx == IndexOf(cities, cityName)
      targetIdx == cityIdx + delta
  IN IF targetIdx < 0 \/ targetIdx >= Len(cities) THEN prev
     ELSE LET newCityOrder == SwapCities(cities, cityIdx, targetIdx)
              OfCity(c) == FilterSeq(cps, LAMBDA cp : cp.city = c)
              reorderedCps == FlatMap(newCityOrder, OfCity)
          IN [prev EXCEPT !.checkpoints = reorderedCps,
                          !.segments = syncSegments(reorderedCps, prev.segments)]

\* faulty variant: a day that does not parse becomes 0
SanitizedFormDayZero(form) ==
  [form EXCEPT !.day = OrDefault(ParseInt(form.day), 0),
               !.cost = OrDefault(ParseInt(form.cost), 0),
               !.timeSpentHours = OrDefault(ParseFloat(form.timeSpentHours), 0)]

\* types.ts:441: the form with day, cost and timeSpentHours made numbers
SanitizedForm(form) ==
  [form EXCEPT !.day = OrDefault(ParseInt(form.day), 1),
               !.cost = OrDefault(ParseInt(form.cost), 0),
               !.timeSpentHours = OrDefault(ParseFloat(form.timeSpentHours), 0)]

\* types.ts:441-451
savePinUpdater(prev, editorId, form) ==
  LET sanitizedForm == SanitizedForm(form)
      newCps == [i \in 1..Len(prev.checkpoints) |->
                   IF prev.checkpoints[i].id = editorId THEN sanitizedForm
                   ELSE prev.checkpoints[i]]
      finalCps == Regroup(newCps)
  IN [prev EXCEPT !.checkpoints = finalCps,
                  !.segments = syncSegments(finalCps, prev.segments)]

\* faulty variant: the day shift reaches only the later checkpoints of the
\* target's city
ShiftedCheckpointsSameCity(cps, fromIdx, toIdx, durationHours) ==
  LET fromCp == cps[fromIdx + 1]
      toCp == cps[toIdx + 1]
      startFrom == IF fromCp.endTime # EmptyTime THEN fromCp.endTime
                   ELSE IF fromCp.startTime # EmptyTime THEN fromCp.startTime
                   ELSE <<9, 0>>
      totalMins == timeToMinutes(startFrom) * 100 + durationHours * 60
      newArrivalDay == fromCp.day + (totalMins \div (1440 * 100))
      dayShift == newArrivalDay - toCp.day
  IN [i \in 1..Len(cps) |->
        IF i - 1 = toIdx
        THEN [cps[i] EXCEPT !.day = newArrivalDay, !.startTime = minutesToTime(totalMins),
                !.endTime = minutesToTime(totalMins + cps[i].timeSpentHours * 60)]
        ELSE IF i - 1 > toIdx /\ cps[i].city = toCp.city
        THEN [cps[i] EXCEPT !.day = cps[i].day + dayShift]
        ELSE cps[i]]

\* types.ts:458-469: the checkpoints after the time cascade
ShiftedCheckpoints(cps, fromIdx, toIdx, durationHours) ==
  LET fromCp == cps[fromIdx + 1]
      toCp == cps[toIdx + 1]
      startFrom == IF fromCp.endTime # EmptyTime THEN fromCp.endTime
                   ELSE IF fromCp.startTime # EmptyTime THEN fromCp.startTime
                   ELSE <<9, 0>>
      startMins == timeToMinutes(startFrom)
      totalMins == startMins * 100 + durationHours * 60
      arrivalTime == minutesToTime(totalMins)
      newArrivalDay == fromCp.day + (totalMins \div (1440 * 100))
      dayShift == newArrivalDay - toCp.day
  IN [i \in 1..Len(cps) |->
        IF i - 1 = toIdx
        THEN [cps[i] EXCEPT !.day = newArrivalDay, !.startTime = arrivalTime,
                !.endTime = minutesToTime(totalMins + cps[i].timeSpentHours * 60)]
        ELSE IF i - 1 > toIdx THEN [cps[i] EXCEPT !.day = cps[i].day + dayShift]
        ELSE cps[i]]

\* faulty variant: the form replaces every segment that leaves the 'from'
\* checkpoint or reaches the 'to' checkpoint
saveSegmentUpdaterEitherEnd(prev, id, form) ==
  LET durationHours == OrDefault(ParseFloat(form.durationHours), 0)
      fromIdx == FindIndex(prev.checkpoints, LAMBDA c : c.id = id.from)
      toIdx == FindIndex(prev.checkpoints, LAMBDA c : c.id = id.to)
      Edited(s) == s.fromId = id.from \/ s.toId = id.to
  IN IF fromIdx # -1 /\ toIdx # -1
     THEN [prev EXCEPT
             !.checkpoints = ShiftedCheckpoints(prev.checkpoints, fromIdx, toIdx, durationHours),
             !.segments = [i \in 1..Len(prev.segments) |->
                             IF Edited(prev.segments[i])
                             THEN [form EXCEPT !.durationHours = durationHours]
                             ELSE prev.segments[i]]]
     ELSE [prev EXCEPT
             !.segments = [i \in 1..Len(prev.segments) |->
                             IF Edited(prev.segments[i])
                             THEN [form EXCEPT
                                     !.cost = Num(OrDefault(ParseInt(form.cost), 0)),
                                     !.durationHours = durationHours]
                             ELSE prev.segments[i]]]

\* types.ts:453-472
saveSegmentUpdater(prev, id, form) ==
  LET durationHours == OrDefault(ParseFloat(form.durationHours), 0)
      fromIdx == FindIndex(prev.checkpoints, LAMBDA c : c.id = id.from)
      toIdx == FindIndex(prev.checkpoints, LAMBDA c : c.id = id.to)
      Edited(s) == s.fromId = id.from /\ s.toId = id.to
  IN IF fromIdx # -1 /\ toIdx # -1
     THEN [prev EXCEPT
             !.checkpoints = ShiftedCheckpoints(prev.checkpoints, fromIdx, toIdx, durationHours),
             !.segments = [i \in 1..Len(prev.segments) |->
                             IF Edited(prev.segments[i])
                             THEN [form EXCEPT !.durationHours = durationHours]
                             ELSE prev.segments[i]]]
     ELSE [prev EXCEPT
             !.segments = [i \in 1..Len(prev.segments) |->
                             IF Edited(prev.segments[i])
                             THEN [form EXCEPT
                                     !.cost = Num(OrDefault(ParseInt(form.cost), 0)),
                                     !.durationHours = durationHours]
                             ELSE prev.segments[i]]]

\* faulty variant: the remaining checkpoints are regrouped and sorted
deleteCheckpointUpdaterRegroup(prev, id) ==
  LET newCheckpoints == Regroup(FilterSeq(prev.checkpoints, LAMBDA c : c.id # id))
  IN [prev EXCEPT !.checkpoints = newCheckpoints,
                  !.segments = syncSegments(newCheckpoints, prev.segments)]

\* types.ts:479-482
deleteCheckpointUpdater(prev, id) ==
  LET newCheckpoints == FilterSeq(prev.checkpoints, LAMBDA c : c.id # id)
  IN [prev EXCEPT !.checkpoints = newCheckpoints,
                  !.segments = syncSegments(newCheckpoints, prev.segments)]

\* types.ts:487-490
deleteDestinationUpdater(prev, cityName) ==
  LET newCheckpoints == FilterSeq(prev.checkpoints, LAMBDA c : c.city # cityName)
  IN [prev EXCEPT !.checkpoints = newCheckpoints,
                  !.segments = syncSegments(newCheckpoints, prev.segments)]

---------------------------------------------------------------------------
(* State of the component                                                  *)

\* constants.tsx INITIAL_TRIP, as the login effect instantiates it (types.ts:249)
InitialTrip(id, name) ==
  [id |-> id, name |-> name, checkpoints |-> <<>>, segments |-> <<>>,
   totalBudget |-> 0, startDate |-> Undefined]

\* activeEditor = null; localForm is read only while an editor is open
\* (types.ts:438, 710) and every open overwrites it, so the model clears it
\* with the editor
NoEditor == [type |-> "NONE"]
NoForm == [none |-> TRUE]
NoPending == [none |-> TRUE]
NoTimer == [none |-> TRUE]

\* types.ts:225: the trip on display
HasTrip(id) == \E i \in 1..Len(trips) : trips[i].id = id
trip ==
  LET k == FindIndex(trips, LAMBDA t : t.id = activeTripId)
  IN IF k # -1 THEN trips[k + 1] ELSE trips[1]

\* faulty variant: prev.slice(-25)
recordActionKeep25(prev, currentTrips) ==
  LET n == Len(prev)
  IN Append(SubSeq(prev, IF n - 24 >= 1 THEN n - 24 ELSE 1, n), currentTrips)

\* types.ts:280: prev.slice(-24) followed by the current trip list
recordAction(prev, currentTrips) ==
  LET n == Len(prev)
  IN Append(SubSeq(prev, Max(1, n - 23), n), currentTrips)

\* the trips an updater may be handed
TripSet == {trips[i] : i \in 1..Len(trips)}

\* faulty variant: the updater is applied to every trip of the list
updateActiveTripEvery(updater) ==
  /\ past' = recordAction(past, trips)
  /\ future' = <<>>
  /\ trips' = [i \in 1..Len(trips) |-> updater[trips[i]]]

\* faulty variant: the redo stack is left as it is
updateActiveTripKeepFuture(updater) ==
  /\ past' = recordAction(past, trips)
  /\ future' = future
  /\ trips' = [i \in 1..Len(trips) |->
                 IF trips[i].id = activeTripId THEN updater[trips[i]] ELSE trips[i]]

\* types.ts:342-345; updater is the callback, a function on TripSet
updateActiveTrip(updater) ==
  /\ past' = recordAction(past, trips)
  /\ future' = <<>>
  /\ trips' = [i \in 1..Len(trips) |->
                 IF trips[i].id = activeTripId THEN updater[trips[i]] ELSE trips[i]]

\* types.ts:434-435
FormOfCheckpoint(cp) ==
  [cp EXCEPT !.day = Num(cp.day), !.cost = Num(cp.cost),
             !.timeSpentHours = Num(cp.timeSpentHours)]
FormOfSegment(seg) == [seg EXCEPT !.durationHours = Num(seg.durationHours)]

Init ==
  /\ trips = <<InitialTrip(1, <<"My First Trip">>)>>
  /\ activeTripId = 1
  /\ past = <<>>
  /\ future = <<>>
  /\ activeEditor = NoEditor
  /\ localForm = NoForm
  /\ nextId = 2
  /\ lastOp = [op |-> "init"]
  /\ searchQuery = <<>>
  /\ searchTimer = NoTimer
  /\ requests = {}
  /\ suggestions = <<>>
  /\ pendingAdd = NoPending
  /\ lookups = {}

---------------------------------------------------------------------------
(* Handlers                                                                *)

\* types.ts:347-370
AddCheckpoint(place) ==
  /\ trips # <<>>
  /\ LET newCp == NewCheckpoint(nextId, place, trip)
     IN /\ updateActiveTrip([prev \in TripSet |-> addCheckpointUpdater(prev, newCp)])
        /\ activeEditor' = [type |-> "PIN", id |-> newCp.id]
        /\ localForm' = FormOfCheckpoint(newCp)
        /\ lastOp' = [op |-> "addCheckpoint", id |-> newCp.id]
  /\ nextId' = nextId + 1
  /\ UNCHANGED activeTripId
  /\ pendingAdd' = NoPending
  /\ UNCHANGED netVars

\* types.ts:382-391
MoveCheckpoint(id, delta) ==
  /\ updateActiveTrip([prev \in TripSet |-> moveCheckpointUpdater(prev, id, delta)])
  /\ lastOp' = [op |-> "moveCheckpoint", id |-> id, delta |-> delta]
  /\ UNCHANGED <<activeTripId, activeEditor, localForm, nextId>>
  /\ UNCHANGED <<netVars, pendingAdd>>

\* types.ts:393-404
MoveDestination(cityName, delta) ==
  /\ updateActiveTrip([prev \in TripSet |-> moveDestinationUpdater(prev, cityName, delta)])
  /\ lastOp' = [op |-> "moveDestination", city |-> cityName, delta |-> delta]
  /\ UNCHANGED <<activeTripId, activeEditor, localForm, nextId>>
  /\ UNCHANGED <<netVars, pendingAdd>>

\* types.ts:478-484
HandleDeleteCheckpoint(id) ==
  /\ updateActiveTrip([prev \in TripSet |-> deleteCheckpointUpdater(prev, id)])
  /\ IF activeEditor.type = "PIN" /\ activeEditor.id = id
     THEN activeEditor' = NoEditor /\ localForm' = NoForm
     ELSE UNCHANGED <<activeEditor, localForm>>
  /\ lastOp' = [op |-> "deleteCheckpoint", id |-> id]
  /\ UNCHANGED <<activeTripId, nextId>>
  /\ UNCHANGED <<netVars, pendingAdd>>

\* types.ts:486-491
HandleDeleteDestination(cityName) ==
  /\ updateActiveTrip([prev \in TripSet |-> deleteDestinationUpdater(prev, cityName)])
  /\ lastOp' = [op |-> "deleteDestination", city |-> cityName]
  /\ UNCHANGED <<activeTripId, activeEditor, localForm, nextId>>
  /\ UNCHANGED <<netVars, pendingAdd>>

\* types.ts:504
UpdateTripStartDate(date) ==
  /\ updateActiveTrip([prev \in TripSet |-> [prev EXCEPT !.startDate = date]])
  /\ lastOp' = [op |-> "updateTripStartDate", date |-> date]
  /\ UNCHANGED <<activeTripId, activeEditor, localForm, nextId>>
  /\ UNCHANGED <<netVars, pendingAdd>>

\* types.ts:434
OpenPinEditor(cp) ==
  /\ activeEditor' = [type |-> "PIN", id |-> cp.id]
  /\ localForm' = FormOfCheckpoint(cp)
  /\ UNCHANGED <<trips, activeTripId, past, future, nextId, lastOp>>
  /\ UNCHANGED <<netVars, pendingAdd>>

\* types.ts:435
OpenSegmentEditor(seg) ==
  /\ activeEditor' = [type |-> "SEGMENT", from |-> seg.fromId, to |-> seg.toId]
  /\ localForm' = FormOfSegment(seg)
  /\ UNCHANGED <<trips, activeTripId, past, future, nextId, lastOp>>
  /\ UNCHANGED <<netVars, pendingAdd>>

\* the onChange and onClick handlers of the editor's inputs (types.ts:718-735)
SetFormField(field, value) ==
  /\ activeEditor.type # "NONE"
  /\ field \in DOMAIN localForm
  /\ localForm' = [localForm EXCEPT ![field] = value]
  /\ UNCHANGED <<trips, activeTripId, past, future, activeEditor, nextId, lastOp>>
  /\ UNCHANGED <<netVars, pendingAdd>>

\* the editor's Cancel and close buttons (types.ts:713, 740)
CloseEditor ==
  /\ activeEditor.type # "NONE"
  /\ activeEditor' = NoEditor
  /\ localForm' = NoForm
  /\ UNCHANGED <<trips, activeTripId, past, future, nextId, lastOp>>
  /\ UNCHANGED <<netVars, pendingAdd>>

\* types.ts:437-476
HandleSave ==
  /\ activeEditor.type # "NONE"
  /\ IF activeEditor.type = "PIN"
     THEN updateActiveTrip([prev \in TripSet |-> savePinUpdater(prev, activeEditor.id, localForm)])
     ELSE updateActiveTrip([prev \in TripSet |-> saveSegmentUpdater(prev, activeEditor, localForm)])
  /\ activeEditor' = NoEditor
  /\ localForm' = NoForm
  /\ lastOp' = [op |-> "handleSave", editor |-> activeEditor]
  /\ UNCHANGED <<activeTripId, nextId>>
  /\ UNCHANGED <<netVars, pendingAdd>>

\* faulty variant: undo takes the oldest snapshot
UndoResultOldest(t, p, f) ==
  IF p = <<>> THEN [trips |-> t, past |-> p, future |-> f]
  ELSE [trips |-> p[1], past |-> Tail(p), future |-> <<t>> \o f]

\* types.ts:284-290, on the state <<trips, past, future>>
UndoResult(t, p, f) ==
  IF p = <<>> THEN [trips |-> t, past |-> p, future |-> f]
  ELSE [trips |-> p[Len(p)], past |-> SubSeq(p, 1, Len(p) - 1), future |-> <<t>> \o f]

Undo ==
  /\ LET r == UndoResult(trips, past, future)
     IN trips' = r.trips /\ past' = r.past /\ future' = r.future
  /\ lastOp' = [op |-> "undo", applied |-> past # <<>>]
  /\ UNCHANGED <<activeTripId, activeEditor, localForm, nextId>>
  /\ UNCHANGED <<netVars, pendingAdd>>

\* faulty variant: redo leaves the snapshot it restores on the redo stack
RedoResultKeepFuture(t, p, f) ==
  IF f = <<>> THEN [trips |-> t, past |-> p, future |-> f]
  ELSE [trips |-> f[1], past |-> Append(p, t), future |-> f]

\* faulty variant: redo does not push the current trip list
RedoResultNoPush(t, p, f) ==
  IF f = <<>> THEN [trips |-> t, past |-> p, future |-> f]
  ELSE [trips |-> f[1], past |-> p, future |-> Tail(f)]

\* types.ts:292-298, on the state <<trips, past, future>>
RedoResult(t, p, f) ==
  IF f = <<>> THEN [trips |-> t, past |-> p, future |-> f]
  ELSE [trips |-> f[1], past |-> Append(p, t), future |-> Tail(f)]

Redo ==
  /\ LET r == RedoResult(trips, past, future)
     IN trips' = r.trips /\ past' = r.past /\ future' = r.future
  /\ lastOp' = [op |-> "redo", applied |-> future # <<>>]
  /\ UNCHANGED <<activeTripId, activeEditor, localForm, nextId>>
  /\ UNCHANGED <<netVars, pendingAdd>>

\* types.ts:320-326
CreateNewTrip ==
  /\ past' = recordAction(past, trips)
  /\ future' = <<>>
  /\ trips' = Append(trips, InitialTrip(nextId, <<"Adventure #", Len(trips) + 1>>))
  /\ activeTripId' = nextId
  /\ nextId' = nextId + 1
  /\ lastOp' = [op |-> "createNewTrip", id |-> nextId]
  /\ UNCHANGED <<activeEditor, localForm>>
  /\ UNCHANGED <<netVars, pendingAdd>>

\* faulty variant: the guard on the last trip is missing
DeleteTripUnguarded(id) ==
  /\ LET newTrips == FilterSeq(trips, LAMBDA t : t.id # id)
     IN /\ past' = recordAction(past, trips)
        /\ future' = <<>>
        /\ trips' = newTrips
        /\ activeTripId' = IF activeTripId = id /\ newTrips # <<>> THEN newTrips[1].id
                           ELSE activeTripId
  /\ lastOp' = [op |-> "deleteTrip", id |-> id, rejected |-> FALSE]
  /\ UNCHANGED <<activeEditor, localForm, nextId>>
  /\ UNCHANGED <<netVars, pendingAdd>>

\* faulty variant: the guard tests for an empty list
DeleteTripGuardEmpty(id) ==
  /\ IF Len(trips) = 0 THEN UNCHANGED <<trips, activeTripId, past, future>>
     ELSE LET newTrips == FilterSeq(trips, LAMBDA t : t.id # id)
          IN /\ past' = recordAction(past, trips)
             /\ future' = <<>>
             /\ trips' = newTrips
             /\ activeTripId' = IF activeTripId = id /\ newTrips # <<>> THEN newTrips[1].id
                                ELSE activeTripId
  /\ lastOp' = [op |-> "deleteTrip", id |-> id, rejected |-> Len(trips) = 0]
  /\ UNCHANGED <<activeEditor, localForm, nextId>>
  /\ UNCHANGED <<netVars, pendingAdd>>

\* types.ts:328-334
DeleteTrip(id) ==
  /\ IF Len(trips) = 1 THEN UNCHANGED <<trips, activeTripId, past, future>>
     ELSE LET newTrips == FilterSeq(trips, LAMBDA t : t.id # id)
          IN /\ past' = recordAction(past, trips)
             /\ future' = <<>>
             /\ trips' = newTrips
             /\ activeTripId' = IF activeTripId = id THEN newTrips[1].id ELSE activeTripId
  /\ lastOp' = [op |-> "deleteTrip", id |-> id, rejected |-> Len(trips) = 1]
  /\ UNCHANGED <<activeEditor, localForm, nextId>>
  /\ UNCHANGED <<netVars, pendingAdd>>

\* types.ts:336-340
RenameActiveTrip(newName) ==
  /\ past' = recordAction(past, trips)
  /\ future' = <<>>
  /\ trips' = [i \in 1..Len(trips) |->
                 IF trips[i].id = activeTripId THEN [trips[i] EXCEPT !.name = newName]
                 ELSE trips[i]]
  /\ lastOp' = [op |-> "renameActiveTrip", name |-> newName]
  /\ UNCHANGED <<activeTripId, activeEditor, localForm, nextId>>
  /\ UNCHANGED <<netVars, pendingAdd>>

\* the trip switcher (types.ts:648)
SetActiveTripId(id) ==
  /\ activeTripId' = id
  /\ lastOp' = [op |-> "setActiveTripId", id |-> id]
  /\ UNCHANGED <<trips, past, future, activeEditor, localForm, nextId>>
  /\ UNCHANGED <<netVars, pendingAdd>>

---------------------------------------------------------------------------
(* Inputs                                                                  *)

\* what the geocoder or the search box offers for a new checkpoint
Places ==
  { [name |-> "P", lat |-> 0, lng |-> 0, city |-> "A"],
    [name |-> "Q", lat |-> 45000, lng |-> 0, city |-> "B"] }

\* city names a caller may pass: those of Places (a trip may hold neither)
CityNames == {"A", "B"}

\* every id handed out so far: those of checkpoints, of deleted ones and of trips
KnownIds == 1..(nextId - 1)

\* the timeline draws its delete buttons for the checkpoints and the cities
\* of the trip on display (Timeline.tsx:123, 223)
CheckpointIds == {trip.checkpoints[i].id : i \in 1..Len(trip.checkpoints)}
Cities == {trip.checkpoints[i].city : i \in 1..Len(trip.checkpoints)}

\* the ids deleteTrip is called with: those of the trips and the active id
TripIds == {trips[i].id : i \in 1..Len(trips)} \cup {activeTripId}

Deltas == {-1, 1}

\* what the day input delivers
DayTexts == { <<"2">>, <<"-", "1">> }

\* what the duration input delivers
DurationTexts == { <<"3">>, <<"8">> }

Modes == {"TRAIN", "BUS", "AUTO", "FERRY", "WALK", "TAXI"}

---------------------------------------------------------------------------
(* Spec: the engine on one trip, every handler the timeline, the map and   *)
(* the editor reach, with undo and redo.  The editor is a full-screen      *)
(* overlay (types.ts:710-711): while it is open only its own controls act. *)

EditorClosed == activeEditor.type = "NONE"

EngineOp ==
  \/ \E place \in Places : nextId <= MaxIds /\ AddCheckpoint(place)
  \/ \E id \in KnownIds, delta \in Deltas : MoveCheckpoint(id, delta)
  \/ \E c \in CityNames, delta \in Deltas : MoveDestination(c, delta)
  \/ \E id \in CheckpointIds : HandleDeleteCheckpoint(id)
  \/ \E c \in Cities : HandleDeleteDestination(c)
  \/ UpdateTripStartDate("2026-01-01")

EditorOpen ==
  \/ \E i \in 1..Len(trip.checkpoints) : OpenPinEditor(trip.checkpoints[i])
  \/ \E i \in 1..Len(trip.segments) : OpenSegmentEditor(trip.segments[i])

EditorInput ==
  \/ \E t \in DayTexts : activeEditor.type = "PIN" /\ SetFormField("day", Text(t))
  \/ \E t \in DurationTexts :
       activeEditor.type = "SEGMENT" /\ SetFormField("durationHours", Text(t))

Next ==
  \/ EditorClosed /\ Len(past) < MaxPast /\ EngineOp
  \/ EditorClosed /\ Len(past) < MaxPast /\ EditorOpen
  \/ EditorClosed /\ Undo
  \/ EditorClosed /\ Redo
  \/ Len(past) < MaxPast /\ EditorInput
  \/ CloseEditor
  \/ Len(past) < MaxPast /\ HandleSave

Spec == Init /\ [][Next]_vars

---------------------------------------------------------------------------
(* SpecOrder: the handlers that place, move and remove checkpoints, for    *)
(* longer runs of them                                                     *)

NextOrder ==
  \/ \E place \in Places :
       EditorClosed /\ Len(past) < MaxSteps /\ nextId <= MaxOrderIds /\ AddCheckpoint(place)
  \/ \E id \in CheckpointIds, delta \in Deltas :
       EditorClosed /\ Len(past) < MaxSteps /\ MoveCheckpoint(id, delta)
  \/ \E id \in CheckpointIds :
       EditorClosed /\ Len(past) < MaxSteps /\ HandleDeleteCheckpoint(id)
  \/ \E c \in Cities :
       EditorClosed /\ Len(past) < MaxSteps /\ HandleDeleteDestination(c)
  \/ \E i \in 1..Len(trip.checkpoints) :
       EditorClosed /\ Len(past) < MaxSteps /\ OpenPinEditor(trip.checkpoints[i])
  \/ Len(past) < MaxSteps /\ HandleSave
  \/ CloseEditor

SpecOrder == Init /\ [][NextOrder]_vars

---------------------------------------------------------------------------
(* SpecTrips: the trip list, with the handlers that create, delete, rename *)
(* and select trips beside those of the engine                             *)

TripOp ==
  \/ Len(trips) < MaxTrips /\ nextId <= MaxIds /\ CreateNewTrip
  \/ \E id \in TripIds : DeleteTrip(id)
  \/ RenameActiveTrip(<<"Renamed">>)

NextTrips ==
  \/ EditorClosed /\ Len(past) < MaxPastTrips /\ TripOp
  \/ EditorClosed /\ Len(past) < MaxPastTrips /\ EngineOp
  \/ EditorClosed /\ Len(past) < MaxPastTrips /\ EditorOpen
  \/ \E i \in 1..Len(trips) : EditorClosed /\ SetActiveTripId(trips[i].id)
  \/ EditorClosed /\ Undo
  \/ EditorClosed /\ Redo
  \/ Len(past) < MaxPastTrips /\ EditorInput
  \/ Len(past) < MaxPastTrips /\ HandleSave
  \/ CloseEditor

SpecTrips == Init /\ [][NextTrips]_vars

---------------------------------------------------------------------------
(* SpecHist: the history at its full depth.  The date input fires only     *)
(* when its value changes (types.ts:672), so successive snapshots differ.  *)

Dates == {"2026-01-01", "2026-01-02"}

NextHist ==
  \/ \E d \in Dates : trip.startDate # d /\ UpdateTripStartDate(d)
  \/ Undo
  \/ Redo

SpecHist == Init /\ [][NextHist]_vars

---------------------------------------------------------------------------
(* Vocabulary of the properties                                            *)

\* the trip with the active id in a trip list, as updateActiveTrip picks it
ActiveIn(ts) == ts[FindIndex(ts, LAMBDA t : t.id = activeTripId) + 1]

\* every history-recorded handler pushes the trip list it started from, so
\* while lastOp names such a handler the top of the undo stack is the trip
\* list before the call and trips is the trip list after it
PreTrips == past[Len(past)]
PreTrip == ActiveIn(PreTrips)
PostTrip == ActiveIn(trips)

IdsOf(cps) == {cps[i].id : i \in 1..Len(cps)}
IdSeq(cps) == [i \in 1..Len(cps) |-> cps[i].id]

SavedPin == lastOp.op = "handleSave" /\ lastOp.editor.type = "PIN"
SavedSegment == lastOp.op = "handleSave" /\ lastOp.editor.type = "SEGMENT"

\* a step of a handler that records the trip list in the history; each of
\* them calls recordAction, which is stated first so that the other steps are
\* told apart without evaluating the handlers
RecordedStep ==
  /\ past' = recordAction(past, trips)
  /\ \/ \E place \in Places : AddCheckpoint(place)
     \/ \E id \in KnownIds, delta \in Deltas : MoveCheckpoint(id, delta)
     \/ \E c \in CityNames, delta \in Deltas : MoveDestination(c, delta)
     \/ \E id \in CheckpointIds : HandleDeleteCheckpoint(id)
     \/ \E c \in Cities : HandleDeleteDestination(c)
     \/ \E d \in Dates : UpdateTripStartDate(d)
     \/ HandleSave
     \/ CreateNewTrip
     \/ \E id \in TripIds : Len(trips) > 1 /\ DeleteTrip(id)
     \/ RenameActiveTrip(<<"Renamed">>)

\* lastOp names a handler that recorded the trip list
Recorded(op) ==
  /\ op.op \in {"addCheckpoint", "moveCheckpoint", "moveDestination", "deleteCheckpoint",
                "deleteDestination", "updateTripStartDate", "handleSave",
                "createNewTrip", "deleteTrip", "renameActiveTrip"}
  /\ op.op = "deleteTrip" => ~op.rejected

---------------------------------------------------------------------------
(* C1: in every reachable state every trip has max(0, n-1) segments for n  *)
(* checkpoints, and the i-th segment runs from checkpoints[i] to           *)
(* checkpoints[i+1].                                                       *)

SegmentsFollowCheckpoints(t) ==
  /\ Len(t.segments) = Max(0, Len(t.checkpoints) - 1)
  /\ \A i \in 1..Len(t.segments) :
       /\ t.segments[i].fromId = t.checkpoints[i].id
       /\ t.segments[i].toId = t.checkpoints[i + 1].id

C1_SegmentInvariant == \A k \in 1..Len(trips) : SegmentsFollowCheckpoints(trips[k])

\* a moveDestination that reordered the checkpoints of a trip whose segment
\* had been given a duration of 3 h in the editor
C1_Witness ==
  /\ lastOp.op = "moveDestination"
  /\ Len(trip.checkpoints) >= 2
  /\ IdSeq(trip.checkpoints) # IdSeq(PreTrip.checkpoints)
  /\ \E i \in 1..Len(PreTrip.segments) : PreTrip.segments[i].durationHours = 300

---------------------------------------------------------------------------
(* C2: after addCheckpoint, moveCheckpoint, moveDestination, a checkpoint  *)
(* or destination delete, or the save of a checkpoint edit, a segment      *)
(* (A, B) that existed before and whose A is still immediately followed by *)
(* B is the segment it was: same mode, distance, duration, cost and note.  *)

Structural(op) ==
  \/ op.op \in {"addCheckpoint", "moveCheckpoint", "moveDestination",
                "deleteCheckpoint", "deleteDestination"}
  \/ op.op = "handleSave" /\ op.editor.type = "PIN"

C2_SegmentPreserved ==
  Structural(lastOp) =>
    \A i \in 1..(Len(PostTrip.checkpoints) - 1) :
      \A j \in 1..Len(PreTrip.segments) :
        (/\ PreTrip.segments[j].fromId = PostTrip.checkpoints[i].id
         /\ PreTrip.segments[j].toId = PostTrip.checkpoints[i + 1].id)
        => PostTrip.segments[i] = PreTrip.segments[j]

\* a structural mutation changed the sequence and kept a segment whose
\* duration the user had set, next to one it had to synthesize
C2_Witness ==
  /\ Structural(lastOp)
  /\ IdSeq(PostTrip.checkpoints) # IdSeq(PreTrip.checkpoints)
  /\ \E i \in 1..Len(PostTrip.segments) :
       /\ \E j \in 1..Len(PreTrip.segments) : PreTrip.segments[j] = PostTrip.segments[i]
       /\ PostTrip.segments[i] #
            NewSegment(PostTrip.checkpoints[i], PostTrip.checkpoints[i + 1])

---------------------------------------------------------------------------
(* C3: after addCheckpoint, the save of a checkpoint edit, a checkpoint    *)
(* delete and a destination delete, the checkpoints of one city occupy one *)
(* contiguous index range.                                                 *)

Contiguous(cps) ==
  \A i, j, k \in 1..Len(cps) :
    (i < j /\ j < k /\ cps[i].city = cps[k].city) => cps[j].city = cps[i].city

C3_CityContiguity ==
  (\/ lastOp.op \in {"addCheckpoint", "deleteCheckpoint", "deleteDestination"}
   \/ SavedPin)
  => Contiguous(PostTrip.checkpoints)

---------------------------------------------------------------------------
(* C4: after addCheckpoint and after the save of a checkpoint edit the     *)
(* checkpoints of each city are in non-decreasing order of (day,           *)
(* startTime), the start times compared as strings.                        *)

SortedWithinCities(cps) ==
  \A i, j \in 1..Len(cps) :
    (i < j /\ cps[i].city = cps[j].city) =>
      \/ cps[i].day < cps[j].day
      \/ cps[i].day = cps[j].day /\ localeCompare(cps[i].startTime, cps[j].startTime) <= 0

C4_SortedAfterInsertOrEdit ==
  (lastOp.op = "addCheckpoint" \/ SavedPin) => SortedWithinCities(PostTrip.checkpoints)

\* the save of a checkpoint edit had to move a checkpoint behind a later one
C4_Witness ==
  /\ SavedPin
  /\ Len(PostTrip.checkpoints) >= 2
  /\ IdSeq(PostTrip.checkpoints) # IdSeq(PreTrip.checkpoints)
  /\ \E i \in 1..(Len(PostTrip.checkpoints) - 1) :
       /\ PostTrip.checkpoints[i].city = PostTrip.checkpoints[i + 1].city
       /\ PostTrip.checkpoints[i].day < PostTrip.checkpoints[i + 1].day

---------------------------------------------------------------------------
(* C5: in every reachable state every checkpoint's day is at least 1.      *)

C5_DayAtLeastOne ==
  \A k \in 1..Len(trips) :
    \A i \in 1..Len(trips[k].checkpoints) : trips[k].checkpoints[i].day >= 1

---------------------------------------------------------------------------
(* C6: after a history-recorded operation performed on trip list S, an     *)
(* undo that follows at once makes the trip list S again.                  *)

C6_UndoRestores ==
  [][RecordedStep => UndoResult(trips', past', future').trips = trips]_vars

\* the undo of a deleteTrip has brought the deleted trip back
C6_Witness ==
  /\ lastOp.op = "undo" /\ lastOp.applied
  /\ Len(trips) = 2
  /\ Len(future) = 1 /\ Len(future[1]) = 1

---------------------------------------------------------------------------
(* C7: undo and then redo, with nothing in between, after a recorded       *)
(* operation X: the trip list is the one X produced and the undo stack is  *)
(* as it was right after X.                                                *)

C7_UndoThenRedo ==
  [][(Recorded(lastOp) /\ past # <<>> /\ Undo) =>
       LET r == RedoResult(trips', past', future')
       IN r.trips = trips /\ r.past = past]_vars

\* redo has brought back what an undo had taken away: a trip with an edited
\* checkpoint on top of a non-empty undo stack
C7_Witness ==
  /\ lastOp.op = "redo" /\ lastOp.applied
  /\ future = <<>>
  /\ Len(past) >= 2
  /\ trips # past[Len(past)]

---------------------------------------------------------------------------
(* C8: the undo stack never holds more than 25 snapshots; a push onto a    *)
(* stack of 25 removes the oldest and keeps the other 24 in order below    *)
(* the new one.                                                            *)

C8_HistoryCap ==
  [][/\ Len(past') <= 25
     /\ (Len(past) = 25 /\ RecordedStep) => past' = Append(Tail(past), trips)]_vars

\* a push onto a full stack has evicted the snapshot of the first state
C8_Witness ==
  /\ Len(past) = 25
  /\ lastOp.op = "updateTripStartDate"
  /\ past[1][1].startDate # Undefined
  /\ past[1] # past[2]

---------------------------------------------------------------------------
(* C9: moveCheckpoint(id, delta) with an id that no checkpoint has, or     *)
(* with index + delta outside the sequence, returns the trip unchanged.    *)

MoveOutOfBounds(cps, id, delta) ==
  \/ \A i \in 1..Len(cps) : cps[i].id # id
  \/ \E i \in 1..Len(cps) : cps[i].id = id /\ (i + delta < 1 \/ i + delta > Len(cps))

C9_MoveNoOp ==
  (lastOp.op = "moveCheckpoint"
     /\ MoveOutOfBounds(PreTrip.checkpoints, lastOp.id, lastOp.delta))
  => PostTrip = PreTrip

\* moveCheckpoint(id, -1) on the first of several checkpoints, one segment
\* of which carries an edited duration
C9_Witness ==
  /\ lastOp.op = "moveCheckpoint" /\ lastOp.delta = -1
  /\ Len(PreTrip.checkpoints) >= 2
  /\ PreTrip.checkpoints[1].id = lastOp.id
  /\ PreTrip.segments[1].durationHours \in {300, 800}

---------------------------------------------------------------------------
(* C10: deleteTrip on a trip list of exactly one trip changes neither the  *)
(* trip list, nor the active trip id, nor the undo and redo stacks.        *)

C10_DeleteLastTripRejected ==
  [][(Len(trips) = 1 /\ \E id \in TripIds : DeleteTrip(id)) =>
       UNCHANGED <<trips, activeTripId, past, future>>]_vars

\* deleteTrip was rejected on the only trip, with snapshots on both stacks
C10_Witness ==
  /\ lastOp.op = "deleteTrip" /\ lastOp.rejected
  /\ lastOp.id = trips[1].id
  /\ Len(trips) = 1
  /\ past # <<>> /\ future # <<>>

---------------------------------------------------------------------------
(* C11: moveDestination(cityName, delta) with a cityName that no           *)
(* checkpoint of the trip has returns the trip unchanged.                  *)

CitiesOf(cps) == {cps[i].city : i \in 1..Len(cps)}

C11_MoveAbsentCityNoOp ==
  (lastOp.op = "moveDestination" /\ lastOp.city \notin CitiesOf(PreTrip.checkpoints))
  => PostTrip = PreTrip

---------------------------------------------------------------------------
(* SpecStale: the editor is drawn over the page but takes neither the      *)
(* keyboard focus nor the page's controls out of the tab order             *)
(* (types.ts:710-711), so the undo button (types.ts:663) can be pressed    *)
(* while an editor is open, and the editor then names a checkpoint that    *)
(* the trip no longer has.                                                 *)

MaxStaleSteps == 5

NextStale ==
  \/ \E place \in Places :
       EditorClosed /\ Len(past) < MaxStaleSteps /\ nextId <= MaxIds /\ AddCheckpoint(place)
  \/ \E id \in CheckpointIds, delta \in Deltas :
       EditorClosed /\ Len(past) < MaxStaleSteps /\ MoveCheckpoint(id, delta)
  \/ \E i \in 1..Len(trip.checkpoints) :
       EditorClosed /\ Len(past) < MaxStaleSteps /\ OpenPinEditor(trip.checkpoints[i])
  \/ \E t \in DayTexts :
       activeEditor.type = "PIN" /\ Len(past) < MaxStaleSteps /\ SetFormField("day", Text(t))
  \/ Len(past) < MaxStaleSteps /\ HandleSave
  \/ CloseEditor
  \/ Undo

SpecStale == Init /\ [][NextStale]_vars

---------------------------------------------------------------------------
(* C12: the save of a checkpoint edit whose id no checkpoint of the active *)
(* trip has returns the trip unchanged: same checkpoint order, same        *)
(* segments.                                                               *)

C12_StaleSaveNoOp ==
  (SavedPin /\ lastOp.editor.id \notin IdsOf(PreTrip.checkpoints))
  => PostTrip = PreTrip

---------------------------------------------------------------------------
(* SpecTime: the editor's time fields.  The Stay and Dur inputs are number *)
(* inputs with no min (types.ts:723, 735).                                 *)

MaxTimeSteps == 5

\* what the Stay (h) input delivers
StayTexts == { <<"1">>, <<"-", "2", "0">> }

\* what the Dur (h) input delivers
TimeDurationTexts == { <<"5">>, <<"8">>, <<"3", "0">> }

NextTime ==
  \/ \E place \in Places :
       EditorClosed /\ Len(past) < MaxTimeSteps /\ nextId <= MaxIds /\ AddCheckpoint(place)
  \/ \E i \in 1..Len(trip.checkpoints) :
       EditorClosed /\ Len(past) < MaxTimeSteps /\ OpenPinEditor(trip.checkpoints[i])
  \/ \E i \in 1..Len(trip.segments) :
       EditorClosed /\ Len(past) < MaxTimeSteps /\ OpenSegmentEditor(trip.segments[i])
  \/ \E t \in StayTexts :
       /\ activeEditor.type = "PIN" /\ Len(past) < MaxTimeSteps
       /\ SetFormField("timeSpentHours", Text(t))
  \/ \E t \in TimeDurationTexts :
       /\ activeEditor.type = "SEGMENT" /\ Len(past) < MaxTimeSteps
       /\ SetFormField("durationHours", Text(t))
  \/ Len(past) < MaxTimeSteps /\ HandleSave
  \/ CloseEditor

SpecTime == Init /\ [][NextTime]_vars

\* the checkpoint with the given id in a sequence that has it
CpOf(cps, id) == cps[FindIndex(cps, LAMBDA c : c.id = id) + 1]

\* the saved segment edit found both its endpoints
EndpointsFound ==
  /\ SavedSegment
  /\ lastOp.editor.from \in IdsOf(PreTrip.checkpoints)
  /\ lastOp.editor.to \in IdsOf(PreTrip.checkpoints)

\* the duration the save stored in the edited segment, in hundredths of an hour
SavedDuration ==
  LET k == FindIndex(PostTrip.segments,
                     LAMBDA s : s.fromId = lastOp.editor.from /\ s.toId = lastOp.editor.to)
  IN PostTrip.segments[k + 1].durationHours

\* a total of hundredths of a minute as a time of day, by wrapping modulo 1440
ClockOf(total) ==
  LET mins == (total % (1440 * 100)) \div 100 IN <<mins \div 60, mins % 60>>

---------------------------------------------------------------------------
(* C13: after the save of a segment edit (from, to) with duration d >= 0   *)
(* and both endpoints found, with M the minutes since midnight of          *)
(* from.endTime (else from.startTime, else 09:00) and T = M + 60 d:        *)
(* to.day = from.day + floor(T / 1440), to.startTime is T mod 1440 as      *)
(* HH:MM and to.endTime is (T + 60 to.timeSpentHours) mod 1440 as HH:MM.   *)

C13_ArrivalTimes ==
  (EndpointsFound /\ SavedDuration >= 0) =>
    LET from == CpOf(PreTrip.checkpoints, lastOp.editor.from)
        to == CpOf(PreTrip.checkpoints, lastOp.editor.to)
        after == CpOf(PostTrip.checkpoints, lastOp.editor.to)
        clock == IF from.endTime # EmptyTime THEN from.endTime
                 ELSE IF from.startTime # EmptyTime THEN from.startTime
                 ELSE <<9, 0>>
        M == clock[1] * 60 + clock[2]
        T == M * 100 + SavedDuration * 60
    IN /\ after.day = from.day + (T \div (1440 * 100))
       /\ after.startTime = ClockOf(T)
       /\ after.endTime = ClockOf(T + to.timeSpentHours * 60)

---------------------------------------------------------------------------
(* C14: after the save of a segment edit (from, to) with both endpoints    *)
(* found, every checkpoint behind 'to' has its day raised by (new day of   *)
(* 'to' - old day of 'to') and nothing else changed, every checkpoint      *)
(* before 'to' is unchanged, and the order of the sequence is unchanged.   *)

C14_CascadeFrame ==
  EndpointsFound =>
    LET pre == PreTrip.checkpoints
        post == PostTrip.checkpoints
        toIdx == FindIndex(pre, LAMBDA c : c.id = lastOp.editor.to) + 1
        shift == post[toIdx].day - pre[toIdx].day
    IN /\ IdSeq(post) = IdSeq(pre)
       /\ \A i \in 1..(toIdx - 1) : post[i] = pre[i]
       /\ \A i \in (toIdx + 1)..Len(pre) :
            post[i] = [pre[i] EXCEPT !.day = pre[i].day + shift]

\* the save moved 'to' to another day, with a checkpoint of another city
\* behind 'to'
C14_Witness ==
  /\ EndpointsFound
  /\ LET pre == PreTrip.checkpoints
         post == PostTrip.checkpoints
         toIdx == FindIndex(pre, LAMBDA c : c.id = lastOp.editor.to) + 1
     IN /\ post[toIdx].day # pre[toIdx].day
        /\ toIdx < Len(pre)
        /\ pre[toIdx + 1].city # pre[toIdx].city

---------------------------------------------------------------------------
(* SpecSync: syncSegments over places at several distances, among them two *)
(* places of one city 2 km apart                                           *)

MaxSyncSteps == 5

SyncPlaces ==
  { [name |-> "P", lat |-> 0, lng |-> 0, city |-> "A"],
    [name |-> "R", lat |-> 2000, lng |-> 0, city |-> "A"],
    [name |-> "S", lat |-> 18400, lng |-> 0, city |-> "A"],
    [name |-> "Q", lat |-> 45000, lng |-> 0, city |-> "B"] }

NextSync ==
  \/ \E place \in SyncPlaces :
       EditorClosed /\ Len(past) < MaxSyncSteps /\ nextId <= MaxIds /\ AddCheckpoint(place)
  \/ \E id \in CheckpointIds, delta \in Deltas :
       EditorClosed /\ Len(past) < MaxSyncSteps /\ MoveCheckpoint(id, delta)
  \/ \E id \in CheckpointIds :
       EditorClosed /\ Len(past) < MaxSyncSteps /\ HandleDeleteCheckpoint(id)
  \/ CloseEditor

SpecSync == Init /\ [][NextSync]_vars

\* segment i of the trip after the call was synthesized by the call
Synthesized(i) ==
  \A j \in 1..Len(PreTrip.segments) :
    \/ PreTrip.segments[j].fromId # PostTrip.segments[i].fromId
    \/ PreTrip.segments[j].toId # PostTrip.segments[i].toId

\* the largest number of tenths of an hour a synthesized duration may have
MaxTenths == 1000

---------------------------------------------------------------------------
(* C15: a segment that syncSegments synthesizes for (from, to) has mode    *)
(* AUTO if the two cities are equal and TRAIN otherwise, distanceKm the    *)
(* distance in km rounded to the nearest integer, durationHours            *)
(* max(0.5, distance / 30 rounded to one decimal), cost 0 and an empty     *)
(* safety note.                                                            *)

C15_SynthesizedSegment ==
  Structural(lastOp) =>
    \A i \in 1..Len(PostTrip.segments) :
      Synthesized(i) =>
        LET s == PostTrip.segments[i]
            from == PostTrip.checkpoints[i]
            to == PostTrip.checkpoints[i + 1]
            metres == Abs(from.lat - to.lat)
        IN /\ s.mode = (IF from.city = to.city THEN "AUTO" ELSE "TRAIN")
           /\ 2 * Abs(s.distanceKm * 1000 - metres) <= 1000
           /\ \E tenths \in 0..MaxTenths :
                /\ 2 * Abs(tenths * 3000 - metres) <= 3000
                /\ s.durationHours = Max(50, tenths * 10)
           /\ s.cost = Num(0)
           /\ s.safetyNote = ""

\* the spec's example: a segment synthesized between two checkpoints of one
\* city that are 2 km apart is AUTO, 2 km, 0.5 h, cost 0
C15_Witness ==
  /\ Structural(lastOp)
  /\ \E i \in 1..Len(PostTrip.segments) :
       /\ Synthesized(i)
       /\ PostTrip.checkpoints[i].city = PostTrip.checkpoints[i + 1].city
       /\ Abs(PostTrip.checkpoints[i].lat - PostTrip.checkpoints[i + 1].lat) = 2000
       /\ PostTrip.segments[i].mode = "AUTO"
       /\ PostTrip.segments[i].distanceKm = 2
       /\ PostTrip.segments[i].durationHours = 50
       /\ PostTrip.segments[i].cost = Num(0)

---------------------------------------------------------------------------
(* SpecDest: destinations of three cities, moved as groups after their     *)
(* checkpoints have been moved one by one                                  *)

MaxDestIds == 5
MaxDestSteps == 6

DestPlaces ==
  { [name |-> "P", lat |-> 0, lng |-> 0, city |-> "A"],
    [name |-> "Q", lat |-> 45000, lng |-> 0, city |-> "B"],
    [name |-> "T", lat |-> 90000, lng |-> 0, city |-> "C"] }

NextDest ==
  \/ \E place \in DestPlaces :
       EditorClosed /\ Len(past) < MaxDestSteps /\ nextId <= MaxDestIds /\ AddCheckpoint(place)
  \/ \E id \in CheckpointIds, delta \in Deltas :
       EditorClosed /\ Len(past) < MaxDestSteps /\ MoveCheckpoint(id, delta)
  \/ \E c \in Cities, delta \in Deltas :
       EditorClosed /\ Len(past) < MaxDestSteps /\ MoveDestination(c, delta)
  \/ CloseEditor

SpecDest == Init /\ [][NextDest]_vars

\* the cities of a sequence in order of first appearance
CityOrder(cps) == Distinct([i \in 1..Len(cps) |-> cps[i].city])

\* the checkpoints of one city, in the order the sequence has them
GroupOf(cps, c) == FilterSeq(cps, LAMBDA cp : cp.city = c)

\* moveDestination was called with a city of the trip and a target in bounds
MovedDestination ==
  /\ lastOp.op = "moveDestination"
  /\ lastOp.city \in CitiesOf(PreTrip.checkpoints)
  /\ LET target == IndexOf(CityOrder(PreTrip.checkpoints), lastOp.city) + lastOp.delta
     IN 0 <= target /\ target < Len(CityOrder(PreTrip.checkpoints))

---------------------------------------------------------------------------
(* C16: moveDestination with a city of the trip and a target in bounds     *)
(* gives the concatenation of the city groups in the old first-appearance  *)
(* order with the city and its neighbour exchanged; each city keeps the    *)
(* relative order of its checkpoints, and no checkpoint is lost or added.  *)

C16_MoveDestination ==
  MovedDestination =>
    LET pre == PreTrip.checkpoints
        post == PostTrip.checkpoints
        old == CityOrder(pre)
        k == IndexOf(old, lastOp.city) + 1
    IN /\ CityOrder(post) = Swap(old, k, k + lastOp.delta)
       /\ Contiguous(post)
       /\ \A c \in CitiesOf(pre) : GroupOf(post, c) = GroupOf(pre, c)
       /\ Len(post) = Len(pre)

\* the middle one of three cities was moved, in a trip whose checkpoints of
\* one city were not next to each other
C16_Witness ==
  /\ MovedDestination
  /\ Len(CityOrder(PreTrip.checkpoints)) = 3
  /\ CityOrder(PreTrip.checkpoints)[2] = lastOp.city
  /\ ~Contiguous(PreTrip.checkpoints)

---------------------------------------------------------------------------
(* C17: moveCheckpoint(id, delta) with both indices in bounds exchanges    *)
(* the checkpoints at index and index + delta and nothing else: every      *)
(* other position holds the checkpoint it held, no field changes, and the  *)
(* sequence is not sorted again.                                           *)

C17_MoveIsSwap ==
  (lastOp.op = "moveCheckpoint"
     /\ ~MoveOutOfBounds(PreTrip.checkpoints, lastOp.id, lastOp.delta))
  => LET pre == PreTrip.checkpoints
         idx == FindIndex(pre, LAMBDA c : c.id = lastOp.id) + 1
     IN PostTrip.checkpoints =
          [i \in 1..Len(pre) |->
             IF i = idx THEN pre[idx + lastOp.delta]
             ELSE IF i = idx + lastOp.delta THEN pre[idx]
             ELSE pre[i]]

\* the exchange put a checkpoint of day 2 before one of day 1 in its city
C17_Witness ==
  /\ lastOp.op = "moveCheckpoint"
  /\ ~MoveOutOfBounds(PreTrip.checkpoints, lastOp.id, lastOp.delta)
  /\ SortedWithinCities(PreTrip.checkpoints)
  /\ ~SortedWithinCities(PostTrip.checkpoints)

---------------------------------------------------------------------------
(* C18: addCheckpoint adds exactly one checkpoint, with a fresh id, type   *)
(* SIGHTSEEING, timeSpentHours 2, startTime 09:00, endTime 11:00, cost 0,  *)
(* empty notes and the day of the last checkpoint of the trip before the   *)
(* insertion (1 if it had none); every checkpoint the trip had is still    *)
(* there with all its fields.                                              *)

C18_AddCheckpoint ==
  lastOp.op = "addCheckpoint" =>
    LET pre == PreTrip.checkpoints
        post == PostTrip.checkpoints
        lastDay == IF pre = <<>> THEN 1 ELSE pre[Len(pre)].day
    IN /\ Len(post) = Len(pre) + 1
       /\ lastOp.id \notin IdsOf(pre)
       /\ \E i \in 1..Len(post) :
            /\ post[i].id = lastOp.id
            /\ post[i].type = "SIGHTSEEING"
            /\ post[i].timeSpentHours = 200
            /\ post[i].startTime = <<9, 0>>
            /\ post[i].endTime = <<11, 0>>
            /\ post[i].cost = 0
            /\ post[i].notes = ""
            /\ post[i].day = lastDay
       /\ \A j \in 1..Len(pre) : \E i \in 1..Len(post) : post[i] = pre[j]

\* a checkpoint was added to a trip whose last checkpoint is on day 2 and
\* was placed before it, in the group of its own city
C18_Witness ==
  /\ lastOp.op = "addCheckpoint"
  /\ Len(PreTrip.checkpoints) >= 2
  /\ PreTrip.checkpoints[Len(PreTrip.checkpoints)].day = 2
  /\ PostTrip.checkpoints[Len(PostTrip.checkpoints)].id # lastOp.id

---------------------------------------------------------------------------
(* SpecDelete: the two delete handlers, called also with an id that no     *)
(* checkpoint has and a city that no checkpoint is in                      *)

NextDelete ==
  \/ \E place \in Places :
       EditorClosed /\ Len(past) < MaxSteps /\ nextId <= MaxOrderIds /\ AddCheckpoint(place)
  \/ \E id \in CheckpointIds, delta \in Deltas :
       EditorClosed /\ Len(past) < MaxSteps /\ MoveCheckpoint(id, delta)
  \/ \E id \in KnownIds :
       EditorClosed /\ Len(past) < MaxSteps /\ HandleDeleteCheckpoint(id)
  \/ \E c \in CityNames :
       EditorClosed /\ Len(past) < MaxSteps /\ HandleDeleteDestination(c)
  \/ CloseEditor

SpecDelete == Init /\ [][NextDelete]_vars

---------------------------------------------------------------------------
(* C19: deleting a checkpoint removes exactly the checkpoint with that id, *)
(* deleting a destination exactly the checkpoints of that city; the others *)
(* keep their order and fields, and when nothing matches the trip is       *)
(* unchanged by value.                                                     *)

C19_DeleteExactly ==
  /\ lastOp.op = "deleteCheckpoint" =>
       /\ PostTrip.checkpoints =
            FilterSeq(PreTrip.checkpoints, LAMBDA c : c.id # lastOp.id)
       /\ lastOp.id \notin IdsOf(PreTrip.checkpoints) => PostTrip = PreTrip
  /\ lastOp.op = "deleteDestination" =>
       /\ PostTrip.checkpoints =
            FilterSeq(PreTrip.checkpoints, LAMBDA c : c.city # lastOp.city)
       /\ lastOp.city \notin CitiesOf(PreTrip.checkpoints) => PostTrip = PreTrip

\* a checkpoint was deleted from a sequence that moveCheckpoint had
\* rearranged, and the others stayed where they were: a city is still split
C19_Witness ==
  /\ lastOp.op = "deleteCheckpoint"
  /\ lastOp.id \in IdsOf(PreTrip.checkpoints)
  /\ Len(PostTrip.checkpoints) = 3
  /\ ~Contiguous(PostTrip.checkpoints)

---------------------------------------------------------------------------
(* SpecForm: the checkpoint editor's Day, Spend and Stay inputs.  They are *)
(* number inputs (types.ts:718-723): the value they deliver is the text of *)
(* a number, or the empty text when what was typed is not a number.        *)

MaxFormSteps == 3

NumberTexts == { <<>>, <<"0">>, <<"3">>, <<"1", ".", "5">> }

NumberFields == {"day", "cost", "timeSpentHours"}

NextForm ==
  \/ \E place \in Places :
       EditorClosed /\ Len(past) < MaxFormSteps /\ nextId <= MaxIds /\ AddCheckpoint(place)
  \/ \E i \in 1..Len(trip.checkpoints) :
       EditorClosed /\ Len(past) < MaxFormSteps /\ OpenPinEditor(trip.checkpoints[i])
  \/ \E field \in NumberFields, t \in NumberTexts :
       /\ activeEditor.type = "PIN" /\ Len(past) < MaxFormSteps
       /\ SetFormField(field, Text(t))
  \/ Len(past) < MaxFormSteps /\ HandleSave
  \/ CloseEditor

SpecForm == Init /\ [][NextForm]_vars

\* a form value that is a text with no digit in it
NonNumeric(v) == ~IsNum(v) /\ \A i \in 1..Len(v.text) : ~IsDigit(v.text[i])

\* this step is the save of a checkpoint edit whose checkpoint is in the trip
SavePinStep ==
  /\ activeEditor.type = "PIN"
  /\ activeEditor' = NoEditor
  /\ past' = recordAction(past, trips)
  /\ activeEditor.id \in IdsOf(trip.checkpoints)

\* day, cost and timeSpentHours of every checkpoint of every trip are numbers
NumbersStored ==
  \A i \in 1..Len(trips) : \A j \in 1..Len(trips[i].checkpoints) :
    LET cp == trips[i].checkpoints[j]
    IN cp.day \in Int /\ cp.cost \in Int /\ cp.timeSpentHours \in Int

---------------------------------------------------------------------------
(* C20: when a checkpoint edit is saved, the stored checkpoint's day, cost *)
(* and timeSpentHours are numbers whatever the form holds: a non-numeric   *)
(* day becomes 1, a non-numeric cost 0 and a non-numeric dwell 0; no text  *)
(* value of these fields is ever stored in a trip.                         *)

C20_SavedNumbers ==
  /\ []NumbersStored
  /\ [][SavePinStep =>
          LET cp == CpOf(ActiveIn(trips').checkpoints, activeEditor.id)
          IN /\ cp.day \in Int /\ cp.cost \in Int /\ cp.timeSpentHours \in Int
             /\ NonNumeric(localForm.day) => cp.day = 1
             /\ NonNumeric(localForm.cost) => cp.cost = 0
             /\ NonNumeric(localForm.timeSpentHours) => cp.timeSpentHours = 0]_vars

\* a checkpoint of day 3 was saved from a form whose three inputs had been
\* emptied
C20_Witness ==
  /\ SavedPin
  /\ lastOp.editor.id \in IdsOf(PreTrip.checkpoints)
  /\ CpOf(PreTrip.checkpoints, lastOp.editor.id).day = 3
  /\ LET cp == CpOf(PostTrip.checkpoints, lastOp.editor.id)
     IN cp.day = 1 /\ cp.cost = 0 /\ cp.timeSpentHours = 0

---------------------------------------------------------------------------
(* SpecFare: the segment editor's Fare and Dur inputs (types.ts:734-735),  *)
(* number inputs like those of the checkpoint editor.  Undo is reachable   *)
(* while the editor is open, which gives the save whose endpoints the trip *)
(* no longer has.                                                          *)

MaxFareSteps == 4

FareTexts == { <<>>, <<"5">> }

FareDurationTexts == { <<>>, <<"3">> }

NextFare ==
  \/ \E place \in Places :
       EditorClosed /\ Len(past) < MaxFareSteps /\ nextId <= MaxIds /\ AddCheckpoint(place)
  \/ \E i \in 1..Len(trip.segments) :
       EditorClosed /\ Len(past) < MaxFareSteps /\ OpenSegmentEditor(trip.segments[i])
  \/ \E t \in FareTexts :
       /\ activeEditor.type = "SEGMENT" /\ Len(past) < MaxFareSteps
       /\ SetFormField("cost", Text(t))
  \/ \E t \in FareDurationTexts :
       /\ activeEditor.type = "SEGMENT" /\ Len(past) < MaxFareSteps
       /\ SetFormField("durationHours", Text(t))
  \/ Len(past) < MaxFareSteps /\ HandleSave
  \/ CloseEditor
  \/ Undo

SpecFare == Init /\ [][NextFare]_vars

---------------------------------------------------------------------------
(* C21: when a segment edit is saved, whether its endpoints are found or   *)
(* not, the stored segment's cost is an integer and its durationHours a    *)
(* number; no text value of these fields is ever stored in a trip.         *)

C21_SegmentNumbers ==
  \A i \in 1..Len(trips) : \A j \in 1..Len(trips[i].segments) :
    LET s == trips[i].segments[j]
    IN IsNum(s.cost) /\ s.durationHours \in Int

---------------------------------------------------------------------------
(* C22: a moveCheckpoint or moveDestination call that is rejected because  *)
(* it would move past the bounds of the sequence leaves the trip list, the *)
(* undo stack and the redo stack as they were.                             *)

\* types.ts:396-398: the city is in the trip and its target index is not
DestinationOutOfBounds(cps, cityName, delta) ==
  LET cities == CityOrder(cps)
      targetIdx == IndexOf(cities, cityName) + delta
  IN cityName \in CitiesOf(cps) /\ (targetIdx < 0 \/ targetIdx >= Len(cities))

RejectedMoveStep ==
  \/ \E id \in CheckpointIds, delta \in Deltas :
       MoveOutOfBounds(trip.checkpoints, id, delta) /\ MoveCheckpoint(id, delta)
  \/ \E c \in CityNames, delta \in Deltas :
       DestinationOutOfBounds(trip.checkpoints, c, delta) /\ MoveDestination(c, delta)

C22_RejectedMoveKeepsHistory ==
  [][RejectedMoveStep => UNCHANGED <<trips, past, future>>]_vars

---------------------------------------------------------------------------
(* The place search (types.ts:406-427).  The effect on searchQuery clears  *)
(* the pending timer and, for a query of two characters or more, starts a  *)
(* new one; the timer's callback sends the fetch and stores its answer.    *)
(* Nothing cancels a fetch that has been sent.                             *)

engineVars == <<trips, activeTripId, past, future, activeEditor, localForm, nextId, lastOp>>

\* what the user types in the search box
Queries == { <<>>, <<"d">>, <<"d", "e">>, <<"d", "e", "l">>, <<"g", "o">> }

\* the body of the answer to a search: the places found, each naming the
\* query it answers, or null
SearchAnswers(q) ==
  { [null |-> FALSE, items |-> <<>>],
    [null |-> FALSE,
     items |-> << [q |-> q, lat |-> 0, lon |-> 0, display_name |-> <<"P", "X">>,
                   address |-> [city |-> "A"]] >>],
    [null |-> TRUE, items |-> <<>>] }

\* every fetch in flight is now the fetch of a superseded query
Superseded(rs) == { [r EXCEPT !.superseded = TRUE] : r \in rs }

\* the search box's onChange (types.ts:578) and the effect it triggers
\* (types.ts:407-419)
SetSearchQuery(q) ==
  /\ q # searchQuery
  /\ searchQuery' = q
  /\ requests' = Superseded(requests)
  /\ IF Len(q) < 2
     THEN suggestions' = <<>> /\ searchTimer' = NoTimer
     ELSE searchTimer' = [q |-> q] /\ UNCHANGED suggestions
  /\ UNCHANGED <<engineVars, pendingAdd, lookups>>

\* the timer's callback up to its await (types.ts:410-413)
SearchTimerFires ==
  /\ searchTimer # NoTimer
  /\ requests' = requests \cup {[q |-> searchTimer.q, superseded |-> FALSE]}
  /\ searchTimer' = NoTimer
  /\ UNCHANGED <<engineVars, searchQuery, suggestions, pendingAdd, lookups>>

\* the callback after its await, the fetch answered (types.ts:414-416)
SearchResponds(r, data) ==
  /\ r \in requests
  /\ requests' = requests \ {r}
  /\ suggestions' = IF data.null THEN <<>> ELSE data.items
  /\ UNCHANGED <<engineVars, searchQuery, searchTimer, pendingAdd, lookups>>

\* the callback after its await, the fetch or res.json() rejected
\* (types.ts:416: finally, no catch)
SearchFails(r) ==
  /\ r \in requests
  /\ requests' = requests \ {r}
  /\ UNCHANGED <<engineVars, searchQuery, searchTimer, suggestions, pendingAdd, lookups>>

\* addr.city || addr.town || ... || 'India' (types.ts:117, 423); the model's
\* addresses have the city field or none
CityOfAddress(addr) ==
  IF "city" \in DOMAIN addr /\ addr.city # "" THEN addr.city ELSE "India"

\* types.ts:421-427, with the effect on searchQuery that its setSearchQuery('')
\* triggers
HandleSelectSuggestion(item) ==
  /\ pendingAdd' = [lat |-> item.lat, lng |-> item.lon, name |-> item.display_name[1],
                    city |-> CityOfAddress(item.address)]
  /\ searchQuery' = <<>>
  /\ suggestions' = <<>>
  /\ searchTimer' = NoTimer
  /\ requests' = IF searchQuery # <<>> THEN Superseded(requests) ELSE requests
  /\ UNCHANGED <<engineVars, lookups>>

\* the Cancel button of the pending checkpoint (types.ts:705)
CancelPendingAdd ==
  /\ pendingAdd # NoPending
  /\ pendingAdd' = NoPending
  /\ UNCHANGED <<engineVars, netVars>>

NextSearch ==
  \/ \E q \in Queries : SetSearchQuery(q)
  \/ SearchTimerFires
  \/ \E r \in requests : \E data \in SearchAnswers(r.q) : SearchResponds(r, data)
  \/ \E r \in requests : SearchFails(r)
  \/ \E i \in 1..Len(suggestions) : HandleSelectSuggestion(suggestions[i])
  \/ CancelPendingAdd

SpecSearch == Init /\ [][NextSearch]_vars

---------------------------------------------------------------------------
(* C23: under every interleaving of query changes, timer firings and       *)
(* answers, the suggestion list is only set from the answer to the most    *)
(* recently issued query; the answer to a superseded query, one sent       *)
(* before a later change of the query, never overwrites the suggestions.   *)

C23_LastRequestWins ==
  [][\A r \in requests :
       (\E data \in SearchAnswers(r.q) : SearchResponds(r, data)) => ~r.superseded]_vars

---------------------------------------------------------------------------
(* The reverse lookup of a long press on the map (types.ts:113-126,        *)
(* 429-432)                                                                *)

\* how the fetch of fetchPlaceDetails can end: it or res.json() rejects; the
\* body is null; the body has no display_name (the geocoder's error object);
\* the body has a display_name, given by its comma-separated parts, and
\* perhaps an address
LookupOutcomes ==
  LET Outcome(rejects, null, hasName, parts, address) ==
        [rejects |-> rejects, null |-> null, hasName |-> hasName,
         display_name |-> parts, address |-> address]
  IN { Outcome(TRUE, FALSE, FALSE, <<"">>, [none |-> TRUE]),
       Outcome(FALSE, TRUE, FALSE, <<"">>, [none |-> TRUE]),
       Outcome(FALSE, FALSE, FALSE, <<"">>, [none |-> TRUE]),
       Outcome(FALSE, FALSE, FALSE, <<"">>, [city |-> "A"]),
       Outcome(FALSE, FALSE, TRUE, <<"P", "X">>, [city |-> "A"]),
       Outcome(FALSE, FALSE, TRUE, <<"P", "X">>, [none |-> TRUE]),
       Outcome(FALSE, FALSE, TRUE, <<"", "X">>, [city |-> "A"]) }

\* the lookup failed: a network error or a response that is not a place
FailedOutcome(o) == o.rejects \/ o.null \/ ~o.hasName

\* faulty variant: the fallback of the catch block has an empty name
fetchPlaceDetailsEmptyName(o) ==
  IF o.rejects \/ o.null \/ ~o.hasName
  THEN [name |-> "", city |-> "India"]
  ELSE [name |-> IF o.display_name[1] = "" THEN "Point of Interest" ELSE o.display_name[1],
        city |-> CityOfAddress(o.address)]

\* types.ts:113-126, on the outcome of its fetch: a rejection, and the
\* TypeError of reading address of null or split of undefined, end in the catch
fetchPlaceDetails(o) ==
  IF o.rejects \/ o.null \/ ~o.hasName
  THEN [name |-> "Point of Interest", city |-> "India"]
  ELSE [name |-> IF o.display_name[1] = "" THEN "Point of Interest" ELSE o.display_name[1],
        city |-> CityOfAddress(o.address)]

MaxLookupIds == 3

\* where the map is pressed
PressedLats == {0, 45000}

\* types.ts:429-430: handleMapLongPress up to its await
HandleMapLongPress(lat) ==
  /\ lookups' = lookups \cup {[lat |-> lat]}
  /\ UNCHANGED <<engineVars, searchQuery, searchTimer, requests, suggestions, pendingAdd>>

\* types.ts:430-431: handleMapLongPress after its await
LookupAnswers(l, o) ==
  /\ l \in lookups
  /\ lookups' = lookups \ {l}
  /\ LET details == fetchPlaceDetails(o)
     IN pendingAdd' = [lat |-> l.lat, lng |-> 0, name |-> details.name, city |-> details.city]
  /\ UNCHANGED <<engineVars, searchQuery, searchTimer, requests, suggestions>>

NextLookup ==
  \/ \E lat \in PressedLats : EditorClosed /\ HandleMapLongPress(lat)
  \/ \E l \in lookups, o \in LookupOutcomes : LookupAnswers(l, o)
  \/ EditorClosed /\ pendingAdd # NoPending /\ nextId <= MaxLookupIds /\ AddCheckpoint(pendingAdd)
  \/ CancelPendingAdd
  \/ CloseEditor

SpecLookup == Init /\ [][NextLookup]_vars

---------------------------------------------------------------------------
(* C24: when the reverse lookup started by a long press fails (network     *)
(* error or malformed response), the pending checkpoint is offered with    *)
(* name 'Point of Interest' and city 'India' at the pressed position, and  *)
(* neither the lookup nor its failure changes the trip list.               *)

C24_LookupFallback ==
  [][/\ \A l \in lookups, o \in LookupOutcomes :
          (FailedOutcome(o) /\ LookupAnswers(l, o)) =>
            /\ pendingAdd' = [lat |-> l.lat, lng |-> 0,
                              name |-> "Point of Interest", city |-> "India"]
            /\ trips' = trips
     /\ \A lat \in PressedLats : HandleMapLongPress(lat) => trips' = trips]_vars

\* a failed lookup has offered the fallback place for a trip that has a
\* checkpoint already
C24_Witness ==
  /\ pendingAdd # NoPending
  /\ pendingAdd.name = "Point of Interest" /\ pendingAdd.city = "India"
  /\ pendingAdd.lat = 45000
  /\ Len(trip.checkpoints) >= 1

---------------------------------------------------------------------------
(* C25: the save of a segment edit whose duration is the duration the      *)
(* segment already has (only the mode or the cost was changed) leaves      *)
(* every checkpoint of the trip unchanged.                                 *)

C25_SameDurationKeepsCheckpoints ==
  LET k == FindIndex(PreTrip.segments,
                     LAMBDA s : s.fromId = lastOp.editor.from /\ s.toId = lastOp.editor.to)
  IN (EndpointsFound /\ k # -1 /\ SavedDuration = PreTrip.segments[k + 1].durationHours)
       => PostTrip.checkpoints = PreTrip.checkpoints

---------------------------------------------------------------------------
(* C26: after the save of a segment edit the checkpoints of each city are  *)
(* in non-decreasing order of (day, startTime) whenever they were so       *)
(* before the save.                                                        *)

C26_SegmentSaveKeepsSort ==
  (EndpointsFound /\ SortedWithinCities(PreTrip.checkpoints))
    => SortedWithinCities(PostTrip.checkpoints)

---------------------------------------------------------------------------
(* C27: the save of a segment edit for (from, to) changes at most the one  *)
(* segment whose (fromId, toId) is (from, to): every other segment is      *)
(* unchanged in all fields, the edited segment keeps its fromId and toId,  *)
(* and the number and order of the segments are unchanged.                 *)

C27_OneSegmentEdited ==
  SavedSegment =>
    LET pre == PreTrip.segments
        post == PostTrip.segments
    IN /\ Len(post) = Len(pre)
       /\ \A i \in 1..Len(pre) :
            /\ post[i].fromId = pre[i].fromId /\ post[i].toId = pre[i].toId
            /\ (pre[i].fromId # lastOp.editor.from \/ pre[i].toId # lastOp.editor.to)
                 => post[i] = pre[i]

\* the first of two segments was saved with a new fare and a new duration;
\* the second leaves the checkpoint that the first reaches
C27_Witness ==
  /\ SavedSegment
  /\ Len(PreTrip.segments) = 2
  /\ PreTrip.segments[1].fromId = lastOp.editor.from
  /\ PreTrip.segments[1].toId = lastOp.editor.to
  /\ PostTrip.segments[1].durationHours = 300
  /\ PostTrip.segments[1].cost = Text(<<"5">>)
  /\ PreTrip.segments[1].durationHours # 300

---------------------------------------------------------------------------
(* SpecClock: the segment editor's Dur (h) input, a number input with a    *)
(* step of 0.5 and no min (types.ts:735), with negative, fractional and    *)
(* long durations                                                          *)

MaxClockSteps == 4

ClockDurationTexts == { <<"-", "2", "0">>, <<"0", ".", "5">>, <<"3", "0">> }

NextClock ==
  \/ \E place \in Places :
       EditorClosed /\ Len(past) < MaxClockSteps /\ nextId <= MaxIds /\ AddCheckpoint(place)
  \/ \E i \in 1..Len(trip.segments) :
       EditorClosed /\ Len(past) < MaxClockSteps /\ OpenSegmentEditor(trip.segments[i])
  \/ \E t \in ClockDurationTexts :
       /\ activeEditor.type = "SEGMENT" /\ Len(past) < MaxClockSteps
       /\ SetFormField("durationHours", Text(t))
  \/ Len(past) < MaxClockSteps /\ HandleSave
  \/ CloseEditor

SpecClock == Init /\ [][NextClock]_vars

\* a time of day as the spec has it: empty, or HH:MM with 00 <= HH <= 23 and
\* 00 <= MM <= 59
WellFormedTime(t) ==
  t = EmptyTime \/ (t[1] \in 0..23 /\ t[2] \in 0..59)

---------------------------------------------------------------------------
(* C28: in every reachable state every checkpoint's startTime and endTime  *)
(* is empty or a well-formed HH:MM of the 24-hour clock, for every         *)
(* duration the segment editor accepts, negative and fractional ones       *)
(* included.                                                               *)

C28_WellFormedTimes ==
  \A i \in 1..Len(trips) : \A j \in 1..Len(trips[i].checkpoints) :
    /\ WellFormedTime(trips[i].checkpoints[j].startTime)
    /\ WellFormedTime(trips[i].checkpoints[j].endTime)

---------------------------------------------------------------------------
(* C29: after addCheckpoint the order of the distinct cities by first      *)
(* appearance is what it was, with the new checkpoint's city appended last *)
(* if no checkpoint had it; the new checkpoint is inside the group of its  *)
(* city.                                                                   *)

C29_AddKeepsCityOrder ==
  lastOp.op = "addCheckpoint" =>
    LET pre == PreTrip.checkpoints
        post == PostTrip.checkpoints
        newCity == CpOf(post, lastOp.id).city
    IN /\ CityOrder(post) = IF newCity \in CitiesOf(pre) THEN CityOrder(pre)
                            ELSE Append(CityOrder(pre), newCity)
       /\ \A i, k \in 1..Len(post) :
            (i < k /\ post[i].city = newCity /\ post[k].city = newCity)
              => \A j \in i..k : post[j].city = newCity

\* a checkpoint was added to the first city of a trip of several cities: it
\* is not the last checkpoint of the sequence
C29_Witness ==
  /\ lastOp.op = "addCheckpoint"
  /\ Len(CityOrder(PreTrip.checkpoints)) >= 2
  /\ CpOf(PostTrip.checkpoints, lastOp.id).city = CityOrder(PreTrip.checkpoints)[1]
  /\ PostTrip.checkpoints[Len(PostTrip.checkpoints)].id # lastOp.id

---------------------------------------------------------------------------
(* C30: when the checkpoints are city-contiguous and sorted by (day,       *)
(* startTime) within each city, addCheckpoint leaves the relative order of *)
(* the checkpoints it found unchanged, puts the new checkpoint behind      *)
(* those of its city that have its day and startTime, and preserves every  *)
(* segment whose two endpoints are still adjacent.                         *)

C30_AddIsStable ==
  (/\ lastOp.op = "addCheckpoint"
   /\ Contiguous(PreTrip.checkpoints)
   /\ SortedWithinCities(PreTrip.checkpoints)) =>
    LET pre == PreTrip.checkpoints
        post == PostTrip.checkpoints
        n == FindIndex(post, LAMBDA c : c.id = lastOp.id) + 1
    IN /\ FilterSeq(post, LAMBDA c : c.id # lastOp.id) = pre
       /\ \A i \in 1..Len(post) :
            (/\ i # n
             /\ post[i].city = post[n].city
             /\ post[i].day = post[n].day
             /\ post[i].startTime = post[n].startTime) => i < n
       /\ \A k \in 1..(Len(pre) - 1) : \A i \in 1..(Len(post) - 1) :
            (post[i] = pre[k] /\ post[i + 1] = pre[k + 1])
              => PostTrip.segments[i] = PreTrip.segments[k]

\* the new checkpoint went between two checkpoints, right behind one of its
\* city that has its day and start time
C30_Witness ==
  /\ lastOp.op = "addCheckpoint"
  /\ Contiguous(PreTrip.checkpoints) /\ SortedWithinCities(PreTrip.checkpoints)
  /\ LET post == PostTrip.checkpoints
         n == FindIndex(post, LAMBDA c : c.id = lastOp.id) + 1
     IN /\ 1 < n /\ n < Len(post)
        /\ post[n - 1].city = post[n].city
        /\ post[n - 1].day = post[n].day
        /\ post[n - 1].startTime = post[n].startTime

---------------------------------------------------------------------------
(* C31: in every reachable state with a non-empty trip list the active     *)
(* trip id is the id of a trip of the list, so that an engine operation is *)
(* applied to the trip on display.                                         *)

C31_ActiveIdNamesTrip == trips # <<>> => HasTrip(activeTripId)

---------------------------------------------------------------------------
(* C32: the undo stack and the redo stack together never hold more than 25 *)
(* snapshots; an undo and a redo each move exactly one snapshot from one   *)
(* stack to the other, and redo never makes the undo stack longer than 25. *)

C32_StacksTogether ==
  /\ [](Len(past) + Len(future) <= 25)
  /\ [][/\ (past # <<>> /\ Undo) =>
             Len(past') = Len(past) - 1 /\ Len(future') = Len(future) + 1
        /\ (future # <<>> /\ Redo) =>
             /\ Len(past') = Len(past) + 1 /\ Len(future') = Len(future) - 1
             /\ Len(past') <= 25]_vars

\* a redo has made the undo stack 25 snapshots long
C32_Witness ==
  /\ lastOp.op = "redo" /\ lastOp.applied
  /\ Len(past) = 25

---------------------------------------------------------------------------
(* C33: every operation that records the trip list in the history empties  *)
(* the redo stack, so that a redo after it is a no-op until the next undo; *)
(* undo with an empty undo stack and redo with an empty redo stack change  *)
(* nothing.                                                                *)

C33_RecordEmptiesRedo ==
  /\ [](Recorded(lastOp) => future = <<>>)
  /\ [][/\ (future = <<>> /\ Redo) => UNCHANGED <<trips, activeTripId, past, future>>
        /\ (past = <<>> /\ Undo) => UNCHANGED <<trips, activeTripId, past, future>>]_vars

\* redo was called on the empty redo stack that recorded operations had left
C33_Witness ==
  /\ lastOp.op = "redo" /\ ~lastOp.applied
  /\ future = <<>>
  /\ Len(past) >= 2

---------------------------------------------------------------------------
(* C34: every engine operation on the active trip, and renameActiveTrip,   *)
(* leaves every other trip of the list unchanged by value and keeps the    *)
(* number and the order of the trips.                                      *)

C34_OtherTripsUnchanged ==
  lastOp.op \in {"addCheckpoint", "moveCheckpoint", "moveDestination", "deleteCheckpoint",
                 "deleteDestination", "updateTripStartDate", "handleSave",
                 "renameActiveTrip"} =>
    /\ Len(trips) = Len(PreTrips)
    /\ \A i \in 1..Len(trips) :
         /\ trips[i].id = PreTrips[i].id
         /\ trips[i].id # activeTripId => trips[i] = PreTrips[i]

\* a checkpoint was added to the active trip beside a trip that has a
\* checkpoint of its own
C34_Witness ==
  /\ lastOp.op = "addCheckpoint"
  /\ Len(trips) = 2
  /\ \E i, j \in 1..2 :
       /\ trips[i].id = activeTripId /\ trips[j].id # activeTripId
       /\ Len(trips[j].checkpoints) = 1
       /\ \E k \in 1..Len(trips[i].checkpoints) : trips[i].checkpoints[k].id = lastOp.id

---------------------------------------------------------------------------
(* C35: from a non-empty trip list, after any sequence of createNewTrip,   *)
(* deleteTrip, renameActiveTrip, engine operations, undo and redo, the     *)
(* trip list holds at least one trip.                                      *)

C35_AtLeastOneTrip == Len(trips) >= 1

\* the undo of a createNewTrip has made the list one trip long again, and
\* deleteTrip was then called on that trip
C35_Witness ==
  /\ lastOp.op = "deleteTrip" /\ lastOp.rejected
  /\ Len(trips) = 1
  /\ future # <<>> /\ Len(future[1]) = 2
  /\ activeTripId = future[1][2].id

---------------------------------------------------------------------------
(* C36: moveCheckpoint, moveDestination, the save of a checkpoint edit and *)
(* the save of a segment edit keep exactly the same set of checkpoint ids, *)
(* with no duplicates, for every argument, including ids and city names    *)
(* that match nothing.                                                     *)

C36_MovesAndSavesKeepIds ==
  lastOp.op \in {"moveCheckpoint", "moveDestination", "handleSave"} =>
    /\ IdsOf(PostTrip.checkpoints) = IdsOf(PreTrip.checkpoints)
    /\ Cardinality(IdsOf(PostTrip.checkpoints)) = Len(PostTrip.checkpoints)

---------------------------------------------------------------------------
(* SpecWrap: segment edits whose durations carry a checkpoint's stay past  *)
(* midnight: a checkpoint reached at 23:00 that is left at 01:00           *)

MaxWrapSteps == 5

WrapDurationTexts == { <<"1">>, <<"1", "2">> }

NextWrap ==
  \/ \E place \in Places :
       EditorClosed /\ Len(past) < MaxWrapSteps /\ nextId <= MaxIds /\ AddCheckpoint(place)
  \/ \E i \in 1..Len(trip.segments) :
       EditorClosed /\ Len(past) < MaxWrapSteps /\ OpenSegmentEditor(trip.segments[i])
  \/ \E t \in WrapDurationTexts :
       /\ activeEditor.type = "SEGMENT" /\ Len(past) < MaxWrapSteps
       /\ SetFormField("durationHours", Text(t))
  \/ Len(past) < MaxWrapSteps /\ HandleSave
  \/ CloseEditor

SpecWrap == Init /\ [][NextWrap]_vars

\* a checkpoint's place on the trip timeline: its day, then its startTime
StartsNoEarlier(b, a) ==
  \/ b.day > a.day
  \/ /\ b.day = a.day
     /\ b.startTime[1] * 60 + b.startTime[2] >= a.startTime[1] * 60 + a.startTime[2]

---------------------------------------------------------------------------
(* C37: after a segment edit (from, to) is saved with a duration >= 0 and  *)
(* both endpoints found, (to.day, to.startTime) is greater than or equal   *)
(* to (from.day, from.startTime) in lexicographic order, also when 'from'  *)
(* was retimed by an earlier save so that its endTime wrapped past         *)
(* midnight.                                                               *)

C37_ArrivalNotBeforeStart ==
  (EndpointsFound /\ SavedDuration >= 0) =>
    StartsNoEarlier(CpOf(PostTrip.checkpoints, lastOp.editor.to),
                    CpOf(PostTrip.checkpoints, lastOp.editor.from))

---------------------------------------------------------------------------
(* SpecSwap: checkpoints moved one place along the sequence and back, with *)
(* segments whose duration was set in the segment editor                   *)

MaxSwapSteps == 5

SwapDurationTexts == { <<"3">> }

NextSwap ==
  \/ \E place \in Places :
       EditorClosed /\ Len(past) < MaxSwapSteps /\ nextId <= MaxIds /\ AddCheckpoint(place)
  \/ \E id \in CheckpointIds, delta \in Deltas :
       EditorClosed /\ Len(past) < MaxSwapSteps /\ MoveCheckpoint(id, delta)
  \/ \E i \in 1..Len(trip.segments) :
       EditorClosed /\ Len(past) < MaxSwapSteps /\ OpenSegmentEditor(trip.segments[i])
  \/ \E t \in SwapDurationTexts :
       /\ activeEditor.type = "SEGMENT" /\ Len(past) < MaxSwapSteps
       /\ SetFormField("durationHours", Text(t))
  \/ Len(past) < MaxSwapSteps /\ HandleSave
  \/ CloseEditor

SpecSwap == Init /\ [][NextSwap]_vars

\* the last operation moved a checkpoint that was not last one place down
\* the sequence
MovedDown ==
  /\ lastOp.op = "moveCheckpoint" /\ lastOp.delta = 1
  /\ \E i \in 1..(Len(PreTrip.checkpoints) - 1) : PreTrip.checkpoints[i].id = lastOp.id

---------------------------------------------------------------------------
(* C38: for a checkpoint that is not last in the sequence,                 *)
(* moveCheckpoint(id, +1) followed by moveCheckpoint(id, -1) restores the  *)
(* trip to its value before the two moves: the same checkpoint sequence    *)
(* and the same segment list, user-edited segments included.               *)

C38_MoveDownThenUpRestores ==
  [][(MovedDown /\ MoveCheckpoint(lastOp.id, -1)) => ActiveIn(trips') = PreTrip]_vars

=============================================================================
